---- MODULE Spec2Model ----
(***************************************************************************)
(* A model of the Planka -> Slack webhook relay (src/index.js).            *)
(*                                                                         *)
(* JavaScript strings are sequences of one-character strings, so that the  *)
(* code's split/trim/toLowerCase/includes/match are computed character by  *)
(* character.  Other JavaScript values are tagged records (JsUndefined,    *)
(* JsNull, Str, Num, Bool, Obj, Arr).                                      *)
(***************************************************************************)
EXTENDS Integers, Sequences, FiniteSets, TLC

VARIABLES
    config,           \* the object that config.js exports
    DEFAULT_DETAILS,  \* the object that every detail record is copied from
    server,           \* "running", or "exited" once the process has ended
    requests,         \* request -> how far its handler is, and what it has made
    call              \* a function applied on its own: name, argument(s), result

handlerVars == <<config, DEFAULT_DETAILS, server, requests>>
vars == <<config, DEFAULT_DETAILS, server, requests, call>>

----------------------------------------------------------------------------
(* Bounds of the model *)

\* longest description text, in fragments of TextFragments
MaxFrags == 4
\* how many requests the server receives
MaxRequests == 2
\* most entries of a change list that is formatted
MaxChanges == 5
\* longest comment text that is formatted
MaxCommentLen == 103

----------------------------------------------------------------------------
(* JavaScript values *)

JsUndefined == [t |-> "undefined"]
JsNull == [t |-> "null"]
Str(s) == [t |-> "string", s |-> s]
Num(n) == [t |-> "number", n |-> n]
Bool(b) == [t |-> "boolean", b |-> b]
Obj(fields) == [t |-> "object", o |-> fields]
Arr(elems) == [t |-> "array", a |-> elems]

IsString(v) == v.t = "string"

\* ToBoolean: undefined, null, "", 0 and false are falsy, everything else is truthy
Truthy(v) ==
    CASE v.t = "undefined" -> FALSE
      [] v.t = "null" -> FALSE
      [] v.t = "string" -> Len(v.s) > 0
      [] v.t = "number" -> v.n # 0
      [] v.t = "boolean" -> v.b
      [] OTHER -> TRUE

\* a || b
JsOr(a, b) == IF Truthy(a) THEN a ELSE b

\* How an evaluation completes: it returns a value or throws an error
Return(v) == [threw |-> FALSE, v |-> v]
Throw(e) == [threw |-> TRUE, e |-> e]

----------------------------------------------------------------------------
(* String primitives (ASCII) *)

LowerAlpha == <<"a", "b", "c", "d", "e", "f", "g", "h", "i", "j", "k", "l", "m",
                "n", "o", "p", "q", "r", "s", "t", "u", "v", "w", "x", "y", "z">>
UpperAlpha == <<"A", "B", "C", "D", "E", "F", "G", "H", "I", "J", "K", "L", "M",
                "N", "O", "P", "Q", "R", "S", "T", "U", "V", "W", "X", "Y", "Z">>
Digits == {"0", "1", "2", "3", "4", "5", "6", "7", "8", "9"}
Range(f) == {f[i] : i \in DOMAIN f}
Letters == Range(LowerAlpha) \cup Range(UpperAlpha)

\* String.prototype.trim removes these (the ASCII part of WhiteSpace and LineTerminator)
WhiteSpace == {" ", "\t", "\n", "\r", "\f"}

LowerChar(c) ==
    IF \E i \in DOMAIN UpperAlpha : UpperAlpha[i] = c
    THEN LowerAlpha[CHOOSE i \in DOMAIN UpperAlpha : UpperAlpha[i] = c]
    ELSE c

\* s.toLowerCase()
ToLowerCase(s) == [i \in DOMAIN s |-> LowerChar(s[i])]

\* s.trim()
Trim(s) ==
    LET keep == {i \in DOMAIN s : s[i] \notin WhiteSpace}
    IN IF keep = {} THEN <<>>
       ELSE LET lo == CHOOSE i \in keep : \A j \in keep : i <= j
                hi == CHOOSE i \in keep : \A j \in keep : j <= i
            IN SubSeq(s, lo, hi)

\* s.includes(sub)
Includes(s, sub) ==
    \E i \in 0..(Len(s) - Len(sub)) : SubSeq(s, i + 1, i + Len(sub)) = sub

\* s.startsWith(sub)
StartsWith(s, sub) == Len(s) >= Len(sub) /\ SubSeq(s, 1, Len(sub)) = sub

\* s.split('\n'): the pieces between the newlines (one piece for a text without newline)
RECURSIVE SplitLines(_)
SplitLines(s) ==
    IF \A i \in DOMAIN s : s[i] # "\n" THEN <<s>>
    ELSE LET nl == CHOOSE i \in DOMAIN s :
                       s[i] = "\n" /\ \A j \in 1..(i - 1) : s[j] # "\n"
         IN <<SubSeq(s, 1, nl - 1)>> \o SplitLines(SubSeq(s, nl + 1, Len(s)))

\* arr.includes(x) on a sequence
SeqIncludes(arr, x) == \E i \in DOMAIN arr : arr[i] = x

----------------------------------------------------------------------------
(* parseNotifyChannels, src/index.js:61-90 *)

notify == <<"n", "o", "t", "i", "f", "y">>
notification == <<"n", "o", "t", "i", "f", "i", "c", "a", "t", "i", "o", "n">>

\* the character classes of /[&#@][a-zA-Z0-9_-]+/
TargetPrefix == {"&", "#", "@"}
\* (mutant: the class \S of the characters that are not blank)
TargetCharNotBlank == Letters \cup Digits \cup {"_", "-", "&", "#", "@", ",", ":"}
TargetChar == Letters \cup Digits \cup {"_", "-"}

\* line.match(/[&#@][a-zA-Z0-9_-]+/g) from position i on: the leftmost match is taken,
\* it extends as far as the class allows, and the scan resumes after it
RECURSIVE MatchTargets(_, _)
MatchTargets(line, i) ==
    IF i > Len(line) THEN <<>>
    ELSE IF line[i] \in TargetPrefix /\ i + 1 <= Len(line) /\ line[i + 1] \in TargetChar
         THEN LET stop == CHOOSE j \in (i + 1)..Len(line) :
                              /\ \A k \in (i + 1)..j : line[k] \in TargetChar
                              /\ (j = Len(line) \/ line[j + 1] \notin TargetChar)
              IN <<SubSeq(line, i, stop)>> \o MatchTargets(line, stop + 1)
         ELSE MatchTargets(line, i + 1)

\* (mutant: the keyword test without toLowerCase)
LineHasKeywordCaseSensitive(trimmedLine) ==
    Includes(trimmedLine, notify) \/ Includes(trimmedLine, notification)
\* (mutant: no keyword test)
LineHasKeywordAlways(trimmedLine) == TRUE
\* the keyword test of line 73
LineHasKeyword(trimmedLine) ==
    \/ Includes(ToLowerCase(trimmedLine), notify)
    \/ Includes(ToLowerCase(trimmedLine), notification)

\* (mutant: push without the includes test)
PushAll(targets, targetMatches) == targets \o targetMatches
\* (mutant: unshift in place of push)
RECURSIVE UnshiftUnique(_, _)
UnshiftUnique(targets, targetMatches) ==
    IF targetMatches = <<>> THEN targets
    ELSE LET target == Head(targetMatches)
         IN UnshiftUnique(IF ~SeqIncludes(targets, target) THEN <<target>> \o targets
                          ELSE targets,
                          Tail(targetMatches))
\* lines 80-84: push the matches not yet in targets
RECURSIVE PushUnique(_, _)
PushUnique(targets, targetMatches) ==
    IF targetMatches = <<>> THEN targets
    ELSE LET target == Head(targetMatches)
         IN PushUnique(IF ~SeqIncludes(targets, target) THEN Append(targets, target)
                       ELSE targets,
                       Tail(targetMatches))

\* the loop over the lines, lines 69-87
RECURSIVE ParseLines(_, _)
ParseLines(lines, targets) ==
    IF lines = <<>> THEN targets
    ELSE LET trimmedLine == Trim(Head(lines))
         IN ParseLines(Tail(lines),
                       IF LineHasKeyword(trimmedLine)
                       THEN PushUnique(targets, MatchTargets(trimmedLine, 1))
                       ELSE targets)

\* parseNotifyChannels(description): description is any JavaScript value, the result a
\* sequence of strings; the completion is recorded because a method call on a value
\* that is not a string would throw
\* (mutant: the guard without the typeof test; split is then called on any truthy value)
ParseNotifyChannelsFalsyGuard(description) ==
    IF ~Truthy(description) THEN Return(<<>>)
    ELSE IF ~IsString(description) THEN Throw("TypeError")
    ELSE Return(ParseLines(SplitLines(description.s), <<>>))
ParseNotifyChannels(description) ==
    IF ~Truthy(description) \/ ~IsString(description) THEN Return(<<>>)
    ELSE Return(ParseLines(SplitLines(description.s), <<>>))

----------------------------------------------------------------------------
(* Property access on JavaScript values *)

\* an object without properties
EmptyObj == Obj([k \in {} |-> JsUndefined])

Nullish(v) == v.t \in {"undefined", "null"}

\* v.k for a value v that is neither null nor undefined (v.k throws a TypeError for
\* those): the property of an object, undefined for a missing property and for the
\* primitives, which have none of the properties the code reads
Prop(v, k) ==
    IF v.t = "object" /\ k \in DOMAIN v.o THEN v.o[k] ELSE JsUndefined

\* v?.k
OptProp(v, k) == IF Nullish(v) THEN JsUndefined ELSE Prop(v, k)

\* v.length
LengthOf(v) ==
    CASE v.t = "array" -> Num(Len(v.a))
      [] v.t = "string" -> Num(Len(v.s))
      [] OTHER -> Prop(v, "length")

\* v[0]
First(v) ==
    CASE v.t = "array" -> IF Len(v.a) > 0 THEN v.a[1] ELSE JsUndefined
      [] v.t = "string" -> IF Len(v.s) > 0 THEN Str(<<v.s[1]>>) ELSE JsUndefined
      [] OTHER -> JsUndefined

\* v?.[0]
OptFirst(v) == IF Nullish(v) THEN JsUndefined ELSE First(v)

\* v > 0 (undefined > 0 is false)
GtZero(v) == v.t = "number" /\ v.n > 0

\* a === b: by value for the primitives; two objects of a parsed payload are never
\* the same object
StrictEq(a, b) == a.t \notin {"object", "array"} /\ a = b

----------------------------------------------------------------------------
(* String literals of the source *)

NA == <<"N", "/", "A">>
unknown == <<"u", "n", "k", "n", "o", "w", "n">>
\* what a template literal makes of the values that are not strings or numbers
txtOf ==
    [ undefined |-> <<"u", "n", "d", "e", "f", "i", "n", "e", "d">>,
      null |-> <<"n", "u", "l", "l">>,
      true |-> <<"t", "r", "u", "e">>,
      false |-> <<"f", "a", "l", "s", "e">>,
      object |-> <<"[", "o", "b", "j", "e", "c", "t", " ", "O", "b", "j", "e", "c", "t", "]">> ]
\* U+2192 is the arrow character of the messages
\* the pieces of the entries of the change list, lines 183-213; U+2192 is the arrow
\* character of the messages
changeTxt ==
    [ titlePrefix |-> <<"t", "i", "t", "l", "e", ":", " ", "\"">>,
      titleArrow |-> <<"\"", " ", "U+2192", " ", "\"">>,
      quote |-> <<"\"">>,
      descriptionUpdated |-> <<"d", "e", "s", "c", "r", "i", "p", "t", "i", "o", "n", " ", "u", "p", "d", "a", "t", "e", "d">>,
      dueDatePrefix |-> <<"d", "u", "e", " ", "d", "a", "t", "e", ":", " ">>,
      arrow |-> <<" ", "U+2192", " ">>,
      none |-> <<"n", "o", "n", "e">>,
      movedPrefix |-> <<"m", "o", "v", "e", "d", ":", " ">>,
      markedCompleted |-> <<"m", "a", "r", "k", "e", "d", " ", "c", "o", "m", "p", "l", "e", "t", "e", "d">>,
      markedIncomplete |-> <<"m", "a", "r", "k", "e", "d", " ", "i", "n", "c", "o", "m", "p", "l", "e", "t", "e">>,
      InvalidDate |-> <<"I", "n", "v", "a", "l", "i", "d", " ", "D", "a", "t", "e">> ]
Comment == <<"C", "o", "m", "m", "e", "n", "t">>
comment == <<"c", "o", "m", "m", "e", "n", "t">>
task == <<"t", "a", "s", "k">>
Task == <<"T", "a", "s", "k">>

cardCreate == <<"c", "a", "r", "d", "C", "r", "e", "a", "t", "e">>
cardUpdate == <<"c", "a", "r", "d", "U", "p", "d", "a", "t", "e">>
cardEdit == <<"c", "a", "r", "d", "E", "d", "i", "t">>
cardMove == <<"c", "a", "r", "d", "M", "o", "v", "e">>
cardArchive == <<"c", "a", "r", "d", "A", "r", "c", "h", "i", "v", "e">>
cardRestore == <<"c", "a", "r", "d", "R", "e", "s", "t", "o", "r", "e">>
commentCreate == <<"c", "o", "m", "m", "e", "n", "t", "C", "r", "e", "a", "t", "e">>
commentUpdate == <<"c", "o", "m", "m", "e", "n", "t", "U", "p", "d", "a", "t", "e">>
taskCreate == <<"t", "a", "s", "k", "C", "r", "e", "a", "t", "e">>
taskUpdate == <<"t", "a", "s", "k", "U", "p", "d", "a", "t", "e">>
taskDelete == <<"t", "a", "s", "k", "D", "e", "l", "e", "t", "e">>

\* `${v}`: the string a template literal makes of a value
DigitChars == <<"0", "1", "2", "3", "4", "5", "6", "7", "8", "9">>
RECURSIVE NatToString(_)
NatToString(n) ==
    IF n < 10 THEN <<DigitChars[n + 1]>>
    ELSE NatToString(n \div 10) \o <<DigitChars[(n % 10) + 1]>>
RECURSIVE JoinStrings(_, _)
JoinStrings(strs, sep) ==
    IF strs = <<>> THEN <<>>
    ELSE IF Len(strs) = 1 THEN strs[1]
    ELSE strs[1] \o sep \o JoinStrings(Tail(strs), sep)
RECURSIVE JsToString(_)
JsToString(v) ==
    CASE v.t = "string" -> v.s
      [] v.t = "undefined" -> txtOf.undefined
      [] v.t = "null" -> txtOf.null
      [] v.t = "boolean" -> IF v.b THEN txtOf.true ELSE txtOf.false
      [] v.t = "number" -> IF v.n < 0 THEN <<"-">> \o NatToString(-v.n) ELSE NatToString(v.n)
      [] v.t = "array" ->
            JoinStrings([i \in DOMAIN v.a |-> IF Nullish(v.a[i]) THEN <<>> ELSE JsToString(v.a[i])],
                        <<",">>)
      [] OTHER -> txtOf.object

----------------------------------------------------------------------------
(* DEFAULT_DETAILS, src/index.js:16-29 *)

DefaultDetails ==
    [ cardTitle |-> Str(NA),
      boardName |-> Str(NA),
      listName |-> Str(NA),
      username |-> Str(NA),
      slackTargets |-> <<>>,
      commentText |-> JsNull,
      isComment |-> Bool(FALSE),
      isTask |-> Bool(FALSE),
      taskName |-> JsNull,
      taskCompleted |-> Bool(FALSE),
      description |-> JsNull,
      changes |-> <<>> ]

----------------------------------------------------------------------------
(* shouldSendNotification, src/index.js:93-110 *)

relevantEvents ==
    << cardCreate, cardUpdate, cardEdit, cardMove, cardArchive, cardRestore,
       commentCreate, commentUpdate, taskCreate, taskUpdate, taskDelete >>

\* (mutant: the test of the targets is missing)
ShouldSendNotificationAnyTargets(event, details) ==
    \E i \in DOMAIN relevantEvents : event = Str(relevantEvents[i])
\* event is a JavaScript value (Array.prototype.includes compares with SameValueZero),
\* details a detail record
ShouldSendNotification(event, details) ==
    /\ \E i \in DOMAIN relevantEvents : event = Str(relevantEvents[i])
    /\ Len(details.slackTargets) > 0

----------------------------------------------------------------------------
(* extractWebhookDetails, src/index.js:121-219 *)

\* A request body is a text that JSON.parse accepts (value is what it parses to) or
\* rejects (raw names the text).
JsonBody(value) == [json |-> TRUE, value |-> value]
MalformedBody(raw) == [json |-> FALSE, raw |-> raw]

\* JSON.parse(body)
JsonParse(body) == IF body.json THEN Return(body.value) ELSE Throw("SyntaxError")

\* event.includes(sub): the substring test of a string, the element test of an array,
\* and a TypeError (includes is not a function) for any other value
EventIncludes(event, sub) ==
    CASE event.t = "string" -> Return(Includes(event.s, sub))
      [] event.t = "array" -> Return(\E i \in DOMAIN event.a : event.a[i] = Str(sub))
      [] OTHER -> Throw("TypeError")

\* (mutant: only the first of the two spellings is tested)
EventIncludesFirstOnly(event, a, b) ==
    IF ~Truthy(event) THEN Return(FALSE) ELSE EventIncludes(event, a)
\* event && (event.includes(a) || event.includes(b)), as the condition of an if
EventIncludesEither(event, a, b) ==
    IF ~Truthy(event) THEN Return(FALSE)
    ELSE LET first == EventIncludes(event, a)
         IN IF first.threw \/ first.v THEN first ELSE EventIncludes(event, b)

\* lines 143-147 and 155-159: the card of a comment or task event is the first of
\* included.cards; cards[0].name throws a TypeError when cards[0] is null or undefined
WithIncludedCard(details, included) ==
    LET cards == OptProp(included, "cards")
    IN IF Truthy(cards) /\ GtZero(LengthOf(cards))
       THEN IF Nullish(First(cards)) THEN Throw("TypeError")
            ELSE Return([details EXCEPT
                            !.cardTitle = JsOr(Prop(First(cards), "name"), Str(NA)),
                            !.description = JsOr(Prop(First(cards), "description"), JsNull)])
       ELSE Return(details)

\* (mutant: the test for a task event is an if of its own, not an else if)
ClassifyEach(details, event, item, included) ==
    LET isComment == EventIncludesEither(event, Comment, comment)
        isTask == EventIncludesEither(event, task, Task)
        asTask(d) == [d EXCEPT !.isTask = Bool(TRUE),
                               !.taskName = JsOr(Prop(item, "name"), Str(NA)),
                               !.taskCompleted = JsOr(Prop(item, "isCompleted"), Bool(FALSE))]
    IN IF isComment.threw THEN isComment
       ELSE IF isTask.threw THEN isTask
       ELSE IF isComment.v
       THEN WithIncludedCard(
                [(IF isTask.v THEN asTask(details) ELSE details) EXCEPT
                    !.isComment = Bool(TRUE),
                    !.commentText = JsOr(Prop(item, "text"), JsOr(Prop(item, "content"), Str(NA)))],
                included)
       ELSE IF isTask.v THEN WithIncludedCard(asTask(details), included)
       ELSE Return([details EXCEPT
                       !.cardTitle = JsOr(Prop(item, "name"), Str(NA)),
                       !.description = JsOr(Prop(item, "description"), JsNull)])
\* lines 136-164: the event is a comment event, else a task event, else a card event
Classify(details, event, item, included) ==
    LET isComment == EventIncludesEither(event, Comment, comment)
        isTask == EventIncludesEither(event, task, Task)
    IN IF isComment.threw THEN isComment
       ELSE IF isComment.v
       THEN WithIncludedCard(
                [details EXCEPT
                    !.isComment = Bool(TRUE),
                    !.commentText = JsOr(Prop(item, "text"), JsOr(Prop(item, "content"), Str(NA)))],
                included)
       ELSE IF isTask.threw THEN isTask
       ELSE IF isTask.v
       THEN WithIncludedCard(
                [details EXCEPT
                    !.isTask = Bool(TRUE),
                    !.taskName = JsOr(Prop(item, "name"), Str(NA)),
                    !.taskCompleted = JsOr(Prop(item, "isCompleted"), Bool(FALSE))],
                included)
       ELSE Return([details EXCEPT
                       !.cardTitle = JsOr(Prop(item, "name"), Str(NA)),
                       !.description = JsOr(Prop(item, "description"), JsNull)])

\* new Date(v).toLocaleDateString(), for the en-US locale: the dates of the model are
\* written year-month-day with one digit for month and day ("2024-1-2" gives
\* "1/2/2024"); any other text is no date
IsDateText(s) ==
    /\ Len(s) = 8
    /\ \A i \in {1, 2, 3, 4, 6, 8} : s[i] \in Digits
    /\ s[5] = "-" /\ s[7] = "-"
ToLocaleDateString(v) ==
    IF v.t = "string" /\ IsDateText(v.s)
    THEN <<v.s[6], "/", v.s[8], "/">> \o SubSeq(v.s, 1, 4)
    ELSE changeTxt.InvalidDate

\* lines 198-202
DueDateChange(prevItem, item) ==
    LET prevDate == IF Truthy(Prop(prevItem, "dueDate"))
                    THEN ToLocaleDateString(Prop(prevItem, "dueDate")) ELSE changeTxt.none
        newDate == IF Truthy(Prop(item, "dueDate"))
                   THEN ToLocaleDateString(Prop(item, "dueDate")) ELSE changeTxt.none
    IN changeTxt.dueDatePrefix \o prevDate \o changeTxt.arrow \o newDate

\* (mutant: the old list is looked up in the included data of the current payload)
ListChangeCurrentLists(prevData, lists) ==
    LET prevList == JsOr(OptProp(OptFirst(lists), "name"), Str(unknown))
        newList == JsOr(OptProp(OptFirst(lists), "name"), Str(unknown))
    IN changeTxt.movedPrefix \o JsToString(prevList) \o changeTxt.arrow \o JsToString(newList)
\* lines 205-209
ListChange(prevData, lists) ==
    LET prevList == JsOr(OptProp(OptFirst(OptProp(OptProp(prevData, "included"), "lists")), "name"),
                         Str(unknown))
        newList == JsOr(OptProp(OptFirst(lists), "name"), Str(unknown))
    IN changeTxt.movedPrefix \o JsToString(prevList) \o changeTxt.arrow \o JsToString(newList)

\* (mutant: the list is compared before the due date)
DetectChangesListFirst(prevData, prevItem, item, lists) ==
    (IF ~StrictEq(Prop(prevItem, "name"), Prop(item, "name"))
     THEN << changeTxt.titlePrefix \o JsToString(Prop(prevItem, "name")) \o changeTxt.titleArrow
             \o JsToString(Prop(item, "name")) \o changeTxt.quote >>
     ELSE <<>>)
    \o (IF ~StrictEq(Prop(prevItem, "description"), Prop(item, "description"))
        THEN <<changeTxt.descriptionUpdated>> ELSE <<>>)
    \o (IF ~StrictEq(Prop(prevItem, "listId"), Prop(item, "listId"))
        THEN <<ListChange(prevData, lists)>> ELSE <<>>)
    \o (IF ~StrictEq(Prop(prevItem, "dueDate"), Prop(item, "dueDate"))
        THEN <<DueDateChange(prevItem, item)>> ELSE <<>>)
    \o (IF ~StrictEq(Prop(prevItem, "isCompleted"), Prop(item, "isCompleted"))
        THEN <<IF Truthy(Prop(item, "isCompleted")) THEN changeTxt.markedCompleted ELSE changeTxt.markedIncomplete>>
        ELSE <<>>)
\* lines 179-214: one entry for each of the five fields that differs, in this order.
\* (The texts prevDesc and newDesc of lines 188-193 are computed and not used.)
DetectChanges(prevData, prevItem, item, lists) ==
    (IF ~StrictEq(Prop(prevItem, "name"), Prop(item, "name"))
     THEN << changeTxt.titlePrefix \o JsToString(Prop(prevItem, "name")) \o changeTxt.titleArrow
             \o JsToString(Prop(item, "name")) \o changeTxt.quote >>
     ELSE <<>>)
    \o (IF ~StrictEq(Prop(prevItem, "description"), Prop(item, "description"))
        THEN <<changeTxt.descriptionUpdated>> ELSE <<>>)
    \o (IF ~StrictEq(Prop(prevItem, "dueDate"), Prop(item, "dueDate"))
        THEN <<DueDateChange(prevItem, item)>> ELSE <<>>)
    \o (IF ~StrictEq(Prop(prevItem, "listId"), Prop(item, "listId"))
        THEN <<ListChange(prevData, lists)>> ELSE <<>>)
    \o (IF ~StrictEq(Prop(prevItem, "isCompleted"), Prop(item, "isCompleted"))
        THEN <<IF Truthy(Prop(item, "isCompleted")) THEN changeTxt.markedCompleted ELSE changeTxt.markedIncomplete>>
        ELSE <<>>)

\* (mutant: user.username is not consulted)
UsernameOfNameOnly(user) == JsOr(OptProp(user, "name"), Str(NA))
\* line 166: user?.name || user?.username || 'N/A'
UsernameOf(user) == JsOr(OptProp(user, "name"), JsOr(OptProp(user, "username"), Str(NA)))

\* (mutant: the text of the comment or the name of the task is parsed)
DescriptionParsedOfItem(details) ==
    IF details.isComment.b THEN details.commentText
    ELSE IF details.isTask.b THEN details.taskName
    ELSE details.description
\* line 175: the argument of parseNotifyChannels
DescriptionParsed(details) == details.description

\* lines 166-215, after the classification
FillDetails(details, data, prevData, user, item, included, prevItem) ==
    LET lists == Prop(JsOr(included, EmptyObj), "lists")
        boards == Prop(JsOr(included, EmptyObj), "boards")
        parsed == ParseNotifyChannels(DescriptionParsed(details))
    IN IF parsed.threw THEN parsed
       ELSE Return(
           [details EXCEPT
               !.username = UsernameOf(user),
               !.boardName = JsOr(OptProp(OptFirst(boards), "name"), Str(NA)),
               !.listName = JsOr(OptProp(OptFirst(lists), "name"), Str(NA)),
               !.slackTargets = parsed.v,
               !.changes = IF Truthy(prevItem) /\ StrictEq(Prop(data, "event"), Str(cardUpdate))
                           THEN DetectChanges(prevData, prevItem, item, lists)
                           ELSE details.changes])

\* lines 129-218: the payload was parsed
ExtractParsed(data, defaults) ==
    LET top == JsOr(data, EmptyObj)
        webhookData == Prop(top, "data")
        prevData == Prop(top, "prevData")
        user == Prop(top, "user")
        item == Prop(JsOr(webhookData, EmptyObj), "item")
        included == Prop(JsOr(webhookData, EmptyObj), "included")
        prevItem == OptProp(prevData, "item")
    IN IF ~Truthy(item) THEN Return(defaults)
       ELSE LET classified == Classify(defaults, Prop(data, "event"), item, included)
            IN IF classified.threw THEN classified
               ELSE FillDetails(classified.v, data, prevData, user, item, included, prevItem)

\* (mutant: JSON.parse outside of the try block)
ExtractWebhookDetailsNoCatch(body, defaults) ==
    LET parsed == JsonParse(body)
    IN IF parsed.threw THEN parsed ELSE ExtractParsed(parsed.v, defaults)
\* extractWebhookDetails(body), with defaults the DEFAULT_DETAILS object it copies
ExtractWebhookDetails(body, defaults) ==
    LET parsed == JsonParse(body)
    IN IF parsed.threw THEN Return(defaults) ELSE ExtractParsed(parsed.v, defaults)

----------------------------------------------------------------------------
(* validateAccessToken, src/index.js:241-249 *)

Bearer == <<"B", "e", "a", "r", "e", "r", " ">>

\* s.replace(pat, rep) with a string pattern: the first occurrence is replaced
ReplaceFirst(s, pat, rep) ==
    IF ~Includes(s, pat) THEN s
    ELSE LET at == CHOOSE i \in 1..(Len(s) - Len(pat) + 1) :
                       /\ SubSeq(s, i, i + Len(pat) - 1) = pat
                       /\ \A j \in 1..(i - 1) : SubSeq(s, j, j + Len(pat) - 1) # pat
         IN SubSeq(s, 1, at - 1) \o rep \o SubSeq(s, at + Len(pat), Len(s))

\* req.headers.authorization and req.headers['x-access-token'] are strings or
\* undefined, query.token is what url.parse makes of the query string
ValidateAccessToken(req, cfg) ==
    LET authHeader == req.authorization
        tokenHeader == req.xAccessToken
        queryToken == req.queryToken
        providedToken ==
            JsOr(JsOr(IF Nullish(authHeader) THEN JsUndefined
                      ELSE Str(ReplaceFirst(authHeader.s, Bearer, <<>>)),
                      tokenHeader),
                 queryToken)
    IN StrictEq(providedToken, cfg.accessToken)

----------------------------------------------------------------------------
(* buildSlackMessage, src/index.js:318-389 *)

\* A character outside ASCII is written as its code point ("U+1F195").
\* the pieces of the texts of lines 325-385
\* the pieces of the texts of lines 319-384, by what they hold
txt ==
    [ angle |-> <<" ", "U+203A", " ">>,
      starNlUs |-> <<"*", "\n", "_">>,
      usNl |-> <<"_", "\n">>,
      in |-> <<" ", "i", "n", " ">>,
      updatedBy |-> <<"U", "p", "d", "a", "t", "e", "d", " ", "b", "y", " ">>,
      starNl |-> <<"*", "\n">>,
      by |-> <<" ", "b", "y", " ">>,
      pencil |-> <<"U+270F", "U+FE0F", " ", "*">>,
      clipboard |-> <<"U+1F4CB", " ", "*">>,
      new |-> <<"U+1F195", " ", "*">>,
      outbox |-> <<"U+1F4E4", " ", "*">>,
      speech |-> <<"U+1F4AC", " ", "*">>,
      ballot |-> <<"U+2611", "U+FE0F", " ", "*">>,
      createdBy |-> <<"C", "r", "e", "a", "t", "e", "d", " ", "b", "y", " ">>,
      movedTo |-> <<"M", "o", "v", "e", "d", " ", "t", "o", " ">>,
      colonUs |-> <<":", "_", " ">>,
      newTask |-> <<"N", "e", "w", " ", "t", "a", "s", "k", ":", " ", "\"">>,
      quoteNlUs |-> <<"\"", "\n", "_">>,
      addedBy |-> <<"A", "d", "d", "e", "d", " ", "b", "y", " ">>,
      task |-> <<"T", "a", "s", "k", " ", "\"">>,
      completed |-> <<"U+2705", " ", "c", "o", "m", "p", "l", "e", "t", "e", "d">>,
      uncompleted |-> <<"U+2B1C", " ", "u", "n", "c", "o", "m", "p", "l", "e", "t", "e", "d">>,
      nlUs |-> <<"\n", "_">>,
      deleted |-> <<"\"", " ", "d", "e", "l", "e", "t", "e", "d", "\n", "_">>,
      removedBy |-> <<"R", "e", "m", "o", "v", "e", "d", " ", "b", "y", " ">>,
      footer |-> <<"P", "l", "a", "n", "k", "a">>,
      more |-> <<" ", "m", "o", "r", "e", ")">>,
      plus |-> <<" ", "(", "+">>,
      commaSp |-> <<",", " ">>,
      quoteSp |-> <<"\"", " ">>,
      us |-> <<"_">>,
      sp |-> <<" ">>,
      ellipsis |-> <<".", ".", ".">> ]
\* the colors of lines 328-376
colors ==
    [ green |-> <<"#", "3", "6", "a", "6", "4", "f">>,
      orange |-> <<"#", "f", "f", "9", "5", "0", "0">>,
      blue |-> <<"#", "0", "0", "7", "c", "b", "a">>,
      purple |-> <<"#", "9", "c", "2", "7", "b", "0">>,
      taskGreen |-> <<"#", "4", "c", "a", "f", "5", "0">>,
      taskOrange |-> <<"#", "f", "f", "9", "8", "0", "0">>,
      red |-> <<"#", "f", "4", "4", "3", "3", "6">>,
      grey |-> <<"#", "6", "0", "7", "d", "8", "b">> ]

\* lines 319-320: the @ targets, each after one space
IsUserTarget(target) == StartsWith(target, <<"@">>)
\* (mutant: the targets are not filtered)
UserMentionsOfAllTargets(targets) ==
    IF Len(targets) > 0 THEN txt.sp \o JoinStrings(targets, txt.sp) ELSE <<>>
UserMentions(targets) ==
    LET userTargets == SelectSeq(targets, IsUserTarget)
    IN IF Len(userTargets) > 0 THEN txt.sp \o JoinStrings(userTargets, txt.sp) ELSE <<>>

\* s.substring(0, n) and a.slice(0, n)
Substring(s, n) == SubSeq(s, 1, IF Len(s) < n THEN Len(s) ELSE n)

\* line 350: the length above which a comment is cut
CommentLimit == 100
\* v > n (undefined > n is false)
GreaterThan(v, n) == v.t = "number" /\ v.n > n

\* (mutant: a comment of exactly the limit is cut too)
TruncatedCommentFromLimit(commentText) ==
    IF Truthy(commentText) /\ GreaterThan(LengthOf(commentText), CommentLimit - 1)
    THEN IF IsString(commentText)
         THEN Return(Str(Substring(commentText.s, CommentLimit) \o txt.ellipsis))
         ELSE Throw("TypeError")
    ELSE Return(commentText)
\* lines 350-352: a value with a length above the limit that is not a string has no
\* substring method
TruncatedComment(commentText) ==
    IF Truthy(commentText) /\ GreaterThan(LengthOf(commentText), CommentLimit)
    THEN IF IsString(commentText)
         THEN Return(Str(Substring(commentText.s, CommentLimit) \o txt.ellipsis))
         ELSE Throw("TypeError")
    ELSE Return(commentText)

\* lines 334-335: the number of changes that are shown
ChangesShown == 3
\* (mutant: the number of all changes is given as the number of further ones)
ChangesSummaryCountsAll(changes) ==
    JoinStrings(Substring(changes, ChangesShown), txt.commaSp)
    \o (IF Len(changes) > ChangesShown
        THEN txt.plus \o NatToString(Len(changes)) \o txt.more
        ELSE <<>>)
\* lines 334-335: changesSummary and moreChanges
ChangesSummary(changes) ==
    JoinStrings(Substring(changes, ChangesShown), txt.commaSp)
    \o (IF Len(changes) > ChangesShown
        THEN txt.plus \o NatToString(Len(changes) - ChangesShown)
             \o txt.more
        ELSE <<>>)

\* the places of a card: `${details.boardName} U+203A ${details.listName}`
BoardAndList(details) ==
    JsToString(details.boardName) \o txt.angle \o JsToString(details.listName)

\* lines 332-341
UpdateText(details, userMentions) ==
    IF Len(details.changes) > 0
    THEN txt.pencil \o JsToString(details.cardTitle) \o txt.starNlUs
         \o ChangesSummary(details.changes) \o txt.usNl
         \o JsToString(details.username) \o txt.in \o BoardAndList(details) \o userMentions
    ELSE txt.pencil \o JsToString(details.cardTitle) \o txt.starNlUs
         \o txt.updatedBy \o JsToString(details.username) \o txt.usNl
         \o BoardAndList(details) \o userMentions

\* (mutant: the event kind is left out of the generic text)
DefaultTextWithoutEvent(event, details, userMentions) ==
    txt.clipboard \o JsToString(details.cardTitle) \o txt.starNl
    \o txt.by \o JsToString(details.username) \o userMentions
\* line 375
DefaultText(event, details, userMentions) ==
    txt.clipboard \o JsToString(details.cardTitle) \o txt.starNl
    \o JsToString(event) \o txt.by \o JsToString(details.username) \o userMentions


\* lines 325-377: the text and the color of the event, or the TypeError of line 351
TextAndColor(event, details, userMentions) ==
    CASE event = Str(cardCreate) ->
            Return([text |-> txt.new \o JsToString(details.cardTitle) \o txt.starNl
                             \o txt.createdBy \o JsToString(details.username) \o txt.in
                             \o BoardAndList(details) \o userMentions,
                    color |-> colors.green])
      [] event \in {Str(cardUpdate), Str(cardEdit)} ->
            Return([text |-> UpdateText(details, userMentions), color |-> colors.orange])
      [] event = Str(cardMove) ->
            Return([text |-> txt.outbox \o JsToString(details.cardTitle) \o txt.starNl
                             \o txt.movedTo \o JsToString(details.listName) \o txt.by
                             \o JsToString(details.username) \o userMentions,
                    color |-> colors.blue])
      [] event = Str(commentCreate) ->
            LET truncatedComment == TruncatedComment(details.commentText)
            IN IF truncatedComment.threw THEN truncatedComment
               ELSE Return([text |-> txt.speech \o JsToString(details.cardTitle) \o txt.starNlUs
                                     \o JsToString(details.username) \o txt.colonUs
                                     \o JsToString(truncatedComment.v) \o userMentions,
                            color |-> colors.purple])
      [] event = Str(taskCreate) ->
            Return([text |-> txt.ballot \o JsToString(details.cardTitle) \o txt.starNl
                             \o txt.newTask \o JsToString(details.taskName) \o txt.quoteNlUs
                             \o txt.addedBy \o JsToString(details.username) \o txt.us \o userMentions,
                    color |-> colors.taskGreen])
      [] event = Str(taskUpdate) ->
            Return([text |-> txt.ballot \o JsToString(details.cardTitle) \o txt.starNl
                             \o txt.task \o JsToString(details.taskName) \o txt.quoteSp
                             \o (IF Truthy(details.taskCompleted) THEN txt.completed ELSE txt.uncompleted)
                             \o txt.nlUs \o txt.updatedBy \o JsToString(details.username)
                             \o txt.us \o userMentions,
                    color |-> colors.taskOrange])
      [] event = Str(taskDelete) ->
            Return([text |-> txt.ballot \o JsToString(details.cardTitle) \o txt.starNl
                             \o txt.task \o JsToString(details.taskName) \o txt.deleted
                             \o txt.removedBy \o JsToString(details.username) \o txt.us \o userMentions,
                    color |-> colors.red])
      [] OTHER ->
            Return([text |-> DefaultText(event, details, userMentions), color |-> colors.grey])

\* buildSlackMessage(event, details, targets); now is what Date.now() gives in the call
BuildSlackMessage(event, details, targets, now) ==
    LET made == TextAndColor(event, details, UserMentions(targets))
    IN IF made.threw THEN made
       ELSE Return([attachments |->
                       << [ color |-> made.v.color,
                            text |-> made.v.text,
                            footer |-> txt.footer,
                            ts |-> now \div 1000 ] >>])

----------------------------------------------------------------------------
(* sendSlackNotification and logChannelAccessError, src/index.js:259-308, 423-442 *)

general == <<"#", "g", "e", "n", "e", "r", "a", "l">>
PlankaBot == <<"P", "l", "a", "n", "k", "a", " ", "B", "o", "t">>
cardIndex == <<":", "c", "a", "r", "d", "_", "i", "n", "d", "e", "x", ":">>
warning == <<":", "w", "a", "r", "n", "i", "n", "g", ":">>

\* line 261
BotTokenConfigured(cfg) == Truthy(cfg.slack) /\ Truthy(Prop(cfg.slack, "botToken"))

IsChannelTarget(target) == StartsWith(target, <<"&">>) \/ StartsWith(target, <<"#">>)

\* (mutant: the first target, whatever its prefix)
SelectChannelFirstTarget(targets, cfg) ==
    IF Len(targets) > 0 THEN Str(targets[1])
    ELSE JsOr(Prop(cfg.slack, "defaultChannel"), Str(general))
\* lines 268-274: the first target with the prefix of a channel, else the default
SelectChannel(targets, cfg) ==
    LET channelTargets == SelectSeq(targets, IsChannelTarget)
    IN IF Len(channelTargets) > 0 THEN Str(channelTargets[1])
       ELSE JsOr(Prop(cfg.slack, "defaultChannel"), Str(general))

\* s.replace(/^[&#]/, '') and s.replace(/^#/, '')
StripLeading(s, chars) == IF Len(s) > 0 /\ s[1] \in chars THEN Tail(s) ELSE s

\* lines 266-291, up to the await: the request to chat.postMessage that is made. A
\* channel that is not a string has no replace method, and buildSlackMessage can
\* throw: the TypeError is caught at line 304 and no request is made. The attachment
\* of the request is that of buildSlackMessage, without ts, the time of the call.
NotificationRequest(event, details, targets, cfg) ==
    LET channel == SelectChannel(targets, cfg)
        message == BuildSlackMessage(event, details, targets, 0)
    IN IF message.threw \/ ~IsString(channel) THEN <<>>
       ELSE << [ method |-> "chat.postMessage",
                 purpose |-> "notification",
                 target |-> channel.s,
                 channel |-> StripLeading(channel.s, {"&", "#"}),
                 username |-> JsOr(Prop(cfg.slack, "botUsername"), Str(PlankaBot)),
                 icon_emoji |-> JsOr(Prop(cfg.slack, "botIcon"), Str(cardIndex)),
                 attachments |-> [i \in {1} |->
                                    [ color |-> message.v.attachments[i].color,
                                      text |-> message.v.attachments[i].text,
                                      footer |-> message.v.attachments[i].footer ]],
                 outcome |-> "in flight" ] >>

\* lines 424-437, up to the await: the request that logChannelAccessError makes, if any
AccessLogRequest(channel, cfg) ==
    IF ~Truthy(Prop(cfg.slack, "loggingChannel")) \/ ~Truthy(Prop(cfg.slack, "botToken"))
    THEN <<>>
    ELSE IF ~IsString(Prop(cfg.slack, "loggingChannel")) THEN <<>>
    ELSE << [ method |-> "chat.postMessage",
              purpose |-> "access needed",
              target |-> channel,
              channel |-> StripLeading(Prop(cfg.slack, "loggingChannel").s, {"#"}),
              username |-> JsOr(Prop(cfg.slack, "botUsername"), Str(PlankaBot)),
              icon_emoji |-> JsOr(Prop(cfg.slack, "botIcon"), Str(warning)),
              outcome |-> "in flight" ] >>

\* How makeSlackApiRequest (lines 451-491) ends: the reply parses to an object, with ok
\* or with an error, or the promise is rejected (a network error, a reply that is
\* not JSON)
ApiOutcomes ==
    {"ok", "channel_not_found", "not_in_channel", "invalid_auth", "network error",
     "invalid JSON"}
\* the ways that matter for the request of logChannelAccessError: a reply with ok, a
\* reply with an error, a rejected promise
AccessLogOutcomes == {"ok", "not_in_channel", "network error"}

----------------------------------------------------------------------------
(* The request handler, src/index.js:495-612 *)

\* x.substring(...) of the logging lines: a TypeError for a value that is neither
\* a string nor skipped by ?. or by the test before it
SubstringThrows(v) == v.t # "string"

\* lines 550-583, the debug output: whether it throws
LogEventThrows(event, details, parsedBody) ==
    IF StrictEq(event, Str(cardUpdate)) /\ Len(details.changes) > 0 THEN FALSE
    ELSE IF StrictEq(event, Str(commentCreate))
    THEN LET card == OptFirst(OptProp(OptProp(OptProp(parsedBody, "data"), "included"), "cards"))
         IN \/ ~Nullish(details.commentText) /\ SubstringThrows(details.commentText)
            \/ /\ Truthy(card)
               /\ Truthy(Prop(card, "description"))
               /\ SubstringThrows(Prop(card, "description"))
            \/ Truthy(details.description) /\ SubstringThrows(details.description)
    ELSE EventIncludesEither(event, task, Task).threw

\* lines 543-585, from the body to the decision: the detail record, the event and
\* whether sendNotification is called; or the error that ends the handler
HandleWebhookBody(body, defaults) ==
    LET extracted == ExtractWebhookDetails(body, defaults)
        parsed == JsonParse(body)
    IN IF extracted.threw THEN extracted
       ELSE IF parsed.threw THEN parsed
       ELSE IF Nullish(parsed.v) THEN Throw("TypeError")
       ELSE LET event == JsOr(Prop(parsed.v, "event"), Str(unknown))
            IN IF LogEventThrows(event, extracted.v, parsed.v) THEN Throw("TypeError")
               ELSE Return([details |-> extracted.v, event |-> event,
                            notify |-> ShouldSendNotification(event, extracted.v)])

\* (mutant: the changes are pushed to the array that the copy shares with
\* DEFAULT_DETAILS, line 179 missing)
SharedAfterExtractPushed(body, defaults) ==
    LET extracted == ExtractWebhookDetails(body, defaults)
    IN IF extracted.threw THEN defaults
       ELSE [defaults EXCEPT !.changes = extracted.v.changes]
\* (mutant: the targets are pushed to the array that the copy shares with
\* DEFAULT_DETAILS)
SharedAfterExtractTargets(body, defaults) ==
    LET extracted == ExtractWebhookDetails(body, defaults)
    IN IF extracted.threw THEN defaults
       ELSE [defaults EXCEPT !.slackTargets = extracted.v.slackTargets]
\* DEFAULT_DETAILS after extractWebhookDetails(body): the copies of lines 126 and 129
\* are shallow and share the arrays slackTargets and changes with it, but each of the
\* two is replaced in the copy (lines 175, 179) before anything is pushed, and no
\* caller writes to the record
SharedAfterExtract(body, defaults) == defaults

\* (mutant: every reply that parses counts as a delivery)
AnsweredOkOrError(outcome) == outcome \notin {"network error", "invalid JSON"}
\* line 293: the request was answered with ok
AnsweredOk(outcome) == outcome = "ok"
\* (mutant: every error is logged to the logging channel)
LogsAccessErrorAlways(outcome) == outcome # "ok"
\* line 299: the errors for which logChannelAccessError is called
LogsAccessError(outcome) == outcome \in {"channel_not_found", "not_in_channel"}

\* a request that has not arrived
NoRequest ==
    [ pc |-> "pending", req |-> [method |-> "", path |-> ""], status |-> 0,
      body |-> MalformedBody(""), handled |-> Throw("none"),
      notification |-> "none", calls |-> <<>> ]

\* (mutant: the body of a POST /webhook is read before the token is looked at)
ReceiveRequestReadsFirst(r, req) ==
    /\ server = "running"
    /\ requests[r].pc = "pending"
    /\ r > 1 => requests[r - 1].pc # "pending"
    /\ requests' =
         [requests EXCEPT ![r] =
            IF req.method = "POST" /\ req.path = "/webhook"
            THEN [@ EXCEPT !.req = req, !.pc = "readRequestBody"]
            ELSE IF req.method = "GET" /\ req.path = "/webhook"
            THEN [@ EXCEPT !.req = req, !.pc = "returned", !.status = 404]
            ELSE [@ EXCEPT !.req = req, !.pc = "returned", !.status = 200]]
    /\ UNCHANGED <<config, DEFAULT_DETAILS, server, call>>
\* The request arrives: the handler runs up to the await of line 540, or to its end.
\* The requests arrive in the order of their numbers.
ReceiveRequest(r, req) ==
    /\ server = "running"
    /\ requests[r].pc = "pending"
    /\ r > 1 => requests[r - 1].pc # "pending"
    /\ requests' =
         [requests EXCEPT ![r] =
            IF req.method = "OPTIONS"
            THEN [@ EXCEPT !.req = req, !.pc = "returned", !.status = 200]
            ELSE IF req.method = "GET" /\ req.path = "/"
            THEN [@ EXCEPT !.req = req, !.pc = "returned", !.status = 200]
            ELSE IF req.method = "POST" /\ req.path = "/webhook"
            THEN IF ~ValidateAccessToken(req, config)
                 THEN [@ EXCEPT !.req = req, !.pc = "returned", !.status = 401]
                 ELSE [@ EXCEPT !.req = req, !.pc = "readRequestBody"]
            ELSE IF req.method = "GET" /\ req.path = "/health"
            THEN [@ EXCEPT !.req = req, !.pc = "returned", !.status = 200]
            ELSE [@ EXCEPT !.req = req, !.pc = "returned", !.status = 404]]
    /\ UNCHANGED <<config, DEFAULT_DETAILS, server, call>>

\* (mutant: the handler awaits sendNotification before it answers)
RequestBodyEndAwaitsDelivery(r, body) ==
    /\ server = "running"
    /\ requests[r].pc = "readRequestBody"
    /\ \E handled \in {HandleWebhookBody(body, DEFAULT_DETAILS)} :
         IF handled.threw
         THEN requests' = [requests EXCEPT ![r] =
                             [@ EXCEPT !.body = body, !.handled = handled, !.pc = "rejected"]]
         ELSE \E posted \in {IF ~handled.v.notify THEN <<>>
                             ELSE IF ~BotTokenConfigured(config) THEN <<>>
                             ELSE NotificationRequest(handled.v.event, handled.v.details,
                                                      handled.v.details.slackTargets, config)} :
                requests' = [requests EXCEPT ![r] =
                                [@ EXCEPT !.body = body, !.handled = handled,
                                          !.pc = IF posted = <<>> THEN "returned" ELSE "sendNotification",
                                          !.status = IF posted = <<>> THEN 200 ELSE 0,
                                          !.calls = posted,
                                          !.notification =
                                              IF ~handled.v.notify THEN "none"
                                              ELSE IF posted = <<>> THEN "false"
                                              ELSE "posting"]]
    /\ DEFAULT_DETAILS' = SharedAfterExtract(body, DEFAULT_DETAILS)
    /\ UNCHANGED <<config, server, call>>
\* The body has been read: the handler runs from line 543 to its end. sendNotification
\* is called and not awaited: it runs up to the await of line 291, where the request
\* to Slack is in flight, or ends at line 263 without a request.
RequestBodyEnd(r, body) ==
    /\ server = "running"
    /\ requests[r].pc = "readRequestBody"
    /\ \E handled \in {HandleWebhookBody(body, DEFAULT_DETAILS)} :
         IF handled.threw
         THEN requests' = [requests EXCEPT ![r] =
                             [@ EXCEPT !.body = body, !.handled = handled, !.pc = "rejected"]]
         ELSE \E posted \in {IF ~handled.v.notify THEN <<>>
                             ELSE IF ~BotTokenConfigured(config) THEN <<>>
                             ELSE NotificationRequest(handled.v.event, handled.v.details,
                                                      handled.v.details.slackTargets, config)} :
                requests' = [requests EXCEPT ![r] =
                                [@ EXCEPT !.body = body, !.handled = handled,
                                          !.pc = "returned", !.status = 200,
                                          !.calls = posted,
                                          !.notification =
                                              IF ~handled.v.notify THEN "none"
                                              ELSE IF posted = <<>> THEN "false"
                                              ELSE "posting"]]
    /\ DEFAULT_DETAILS' = SharedAfterExtract(body, DEFAULT_DETAILS)
    /\ UNCHANGED <<config, server, call>>

\* (mutant: a notification that failed is posted a second time)
SlackApiResponseRetries(r, outcome) ==
    /\ server = "running"
    /\ requests[r].notification = "posting"
    /\ requests' =
         [requests EXCEPT ![r] =
            IF AnsweredOk(outcome) \/ Len(@.calls) > 1
            THEN [@ EXCEPT !.calls = [@ EXCEPT ![Len(@)].outcome = outcome],
                           !.notification = IF AnsweredOk(outcome) THEN "true" ELSE "false"]
            ELSE [@ EXCEPT !.calls = <<[@[1] EXCEPT !.outcome = outcome],
                                       [@[1] EXCEPT !.outcome = "in flight"]>>]]
    /\ UNCHANGED <<config, DEFAULT_DETAILS, server, call>>
\* The request to chat.postMessage ends: sendSlackNotification runs from line 293 on,
\* to its end or to the await of line 437 in logChannelAccessError.
SlackApiResponse(r, outcome) ==
    /\ server = "running"
    /\ requests[r].notification = "posting"
    /\ LET access == IF LogsAccessError(outcome)
                     THEN AccessLogRequest(requests[r].calls[1].target, config)
                     ELSE <<>>
       IN requests' =
            [requests EXCEPT ![r] =
               [@ EXCEPT !.calls = <<[@[1] EXCEPT !.outcome = outcome]>> \o access,
                         !.notification =
                             IF AnsweredOk(outcome) THEN "true"
                             ELSE IF access # <<>> THEN "logging"
                             ELSE "false"]]
    /\ UNCHANGED <<config, DEFAULT_DETAILS, server, call>>

\* The request of logChannelAccessError ends, in any way: sendSlackNotification
\* returns false (line 302).
AccessLogResponse(r, outcome) ==
    /\ server = "running"
    /\ requests[r].notification = "logging"
    /\ requests' =
         [requests EXCEPT ![r] =
            [@ EXCEPT !.calls = [@ EXCEPT ![2].outcome = outcome],
                      !.notification = "false"]]
    /\ UNCHANGED <<config, DEFAULT_DETAILS, server, call>>

\* The promise of a handler was rejected and nothing handles the rejection: Node.js,
\* from version 15 on, ends the process; older versions print a warning and go on.
UnhandledRejection ==
    /\ server = "running"
    /\ \E r \in DOMAIN requests : requests[r].pc = "rejected"
    /\ server' = "exited"
    /\ UNCHANGED <<config, DEFAULT_DETAILS, requests, call>>

----------------------------------------------------------------------------
(* Inputs of parseNotifyChannels *)

\* The pieces the description texts are made of: both keywords in several letter
\* cases, tokens with each prefix and in two letter cases, a token after a separator,
\* a line break with blanks around it, and a keyword with its token.
TextFragments ==
    { <<"N", "O", "T", "I", "F", "Y", " ">>,
      <<"N", "o", "t", "i", "f", "i", "c", "a", "t", "i", "o", "n", ":">>,
      <<"&", "a">>,
      <<"&", "A">>,
      <<",", " ", "@", "b", "_", "1">>,
      <<"\r", "\n", "\t">>,
      <<"n", "o", "t", "i", "f", "y", " ", "#", "c", "-">> }

RECURSIVE TextsOfLen(_)
TextsOfLen(n) ==
    IF n = 0 THEN {<<>>}
    ELSE {f \o t : f \in TextFragments, t \in TextsOfLen(n - 1)}

Texts == UNION {TextsOfLen(n) : n \in 0..MaxFrags}

\* what a caller can pass that is not a non-empty string
NonTextValues ==
    { JsUndefined, JsNull, Str(<<>>), Num(0), Num(5), Bool(FALSE), Bool(TRUE),
      Obj([name |-> Str(notify)]), Arr(<<Str(<<"n", "o", "t", "i", "f", "y", " ", "&", "a">>)>>) }

DescriptionValues == NonTextValues \cup {Str(t) : t \in Texts}

----------------------------------------------------------------------------
(* Inputs of shouldSendNotification *)

EventNames ==
    { cardCreate, cardUpdate, cardEdit, cardMove, cardArchive, cardRestore,
      commentCreate, commentUpdate, taskCreate, taskUpdate, taskDelete,
      unknown,
      <<"c", "a", "r", "d", "D", "e", "l", "e", "t", "e">>,
      <<"c", "o", "m", "m", "e", "n", "t", "D", "e", "l", "e", "t", "e">>,
      <<"b", "o", "a", "r", "d", "C", "r", "e", "a", "t", "e">>,
      <<"C", "A", "R", "D", "C", "R", "E", "A", "T", "E">>,
      <<"c", "a", "r", "d", "c", "r", "e", "a", "t", "e">>,
      <<"c", "a", "r", "d", "C", "r", "e", "a", "t", "e", " ">>,
      <<"c", "a", "r", "d">>,
      <<"t", "a", "s", "k", "C", "r", "e", "a", "t", "e", "d">> }

TargetLists ==
    { <<>>,
      << <<"&", "t", "e", "a", "m">> >>,
      << <<"@", "j", "o", "h", "n">> >>,
      << <<"@", "j", "o", "h", "n">>, <<"&", "t", "e", "a", "m">> >>,
      << <<"@", "j", "o", "h", "n">>, <<"#", "d", "e", "v">>, <<"&", "t", "e", "a", "m">> >>,
      << <<"@", "j", "o", "h", "n">>, <<"@", "a", "n", "n">> >> }

----------------------------------------------------------------------------
(* Inputs of extractWebhookDetails *)

\* a property that the object does not have
Absent == [t |-> "absent"]
\* the object with the properties of r that are not Absent
MkObj(r) == Obj([k \in {k \in DOMAIN r : r[k] # Absent} |-> r[k]])

textNotify == <<"n", "o", "t", "i", "f", "y", " ", "&", "t", "e", "a", "m", " ", "@", "j", "o", "h", "n">>
textUsersOnly == <<"N", "o", "t", "i", "f", "y", ":", " ", "@", "j", "o", "h", "n">>
textNoKeyword == <<"s", "e", "e", " ", "#", "d", "e", "v">>

Items ==
    { Absent, JsNull,
      MkObj([name |-> Str(<<"T", "1">>), description |-> Str(textNotify),
             text |-> Str(<<"h", "i">>), content |-> Absent, dueDate |-> Absent,
             listId |-> Num(1), isCompleted |-> Bool(FALSE)]),
      MkObj([name |-> Str(<<"T", "2">>), description |-> Str(textUsersOnly),
             text |-> Absent, content |-> Str(<<"n", "o", "t", "i", "f", "y", " ", "#", "y", "o">>),
             dueDate |-> Str(<<"2", "0", "2", "4", "-", "1", "-", "2">>),
             listId |-> Num(2), isCompleted |-> Bool(TRUE)]),
      MkObj([name |-> Absent, description |-> JsNull, text |-> Absent, content |-> Absent,
             dueDate |-> JsNull, listId |-> Num(1), isCompleted |-> Absent]),
      MkObj([name |-> Str(<<"T", "1">>), description |-> Str(textNotify),
             text |-> Str(<<"h", "i">>), content |-> Absent, dueDate |-> Absent,
             listId |-> Num(2), isCompleted |-> Bool(FALSE)]) }

Cards ==
    { Absent, JsNull, Arr(<<>>), Arr(<<JsNull>>),
      Arr(<<MkObj([name |-> Str(<<"C", "1">>), description |-> Str(textNotify)])>>),
      Arr(<<MkObj([name |-> Absent, description |-> Str(textNoKeyword)]),
            MkObj([name |-> Str(<<"C", "2">>), description |-> Str(textNotify)])>>) }

NamedLists ==
    { Absent, Arr(<<>>),
      Arr(<<MkObj([name |-> Str(<<"D", "o", "n", "e">>)]),
            MkObj([name |-> Str(<<"T", "o", "d", "o">>)])>>) }

Includeds ==
    {Absent, JsNull}
    \cup {MkObj([cards |-> c, boards |-> l, lists |-> l]) : c \in Cards, l \in NamedLists}

Users ==
    { Absent, JsNull,
      MkObj([name |-> Str(<<"A", "n", "n">>), username |-> Str(<<"a", "n", "n">>)]),
      MkObj([name |-> Absent, username |-> Str(<<"b", "o", "b">>)]),
      MkObj([name |-> Str(<<>>), username |-> Absent]) }

PrevDatas ==
    {Absent, JsNull}
    \cup {MkObj([item |-> i, included |-> Absent]) : i \in Items \ {Absent}}
    \cup {MkObj([item |-> i,
                 included |-> MkObj([lists |-> Arr(<<MkObj([name |-> Str(<<"T", "o", "d", "o">>)])>>)])]) :
            i \in Items \ {Absent, JsNull}}

PayloadEvents ==
    { Absent, JsNull, Num(5),
      Str(cardCreate), Str(cardUpdate), Str(commentCreate), Str(taskUpdate),
      Str(<<"C", "O", "M", "M", "E", "N", "T", "C", "R", "E", "A", "T", "E">>),
      Str(<<"T", "A", "S", "K", "U", "P", "D", "A", "T", "E">>),
      Str(<<"t", "a", "s", "k", "C", "o", "m", "m", "e", "n", "t">>) }

Datas ==
    {Absent, JsNull}
    \cup {MkObj([item |-> i, included |-> inc]) : i \in Items, inc \in Includeds}

\* what a body can parse to
Payloads ==
    {JsNull, Num(5), Str(notify)}
    \cup {MkObj([event |-> e, data |-> d, prevData |-> pd, user |-> u]) :
            e \in PayloadEvents, d \in Datas, pd \in PrevDatas, u \in Users}

MalformedBodies ==
    {MalformedBody(raw) : raw \in {"", "{", "not json", "{'event': 'cardCreate'}", "undefined"}}

Bodies == MalformedBodies \cup {JsonBody(v) : v \in Payloads}

----------------------------------------------------------------------------
(* The specifications of the functions: arguments are chosen, the function is applied
   to them *)

\* the server is not started
ServerIdle ==
    /\ config = [accessToken |-> JsUndefined, slack |-> JsUndefined]
    /\ DEFAULT_DETAILS = DefaultDetails
    /\ server = "running"
    /\ requests = <<>>

InitParse ==
    /\ ServerIdle
    /\ \E d \in DescriptionValues :
           call = [fn |-> "parseNotifyChannels", arg |-> d, returned |-> FALSE]

ParseNotifyChannelsCall ==
    /\ call.fn = "parseNotifyChannels"
    /\ ~call.returned
    /\ call' = [fn |-> call.fn, arg |-> call.arg, returned |-> TRUE,
                result |-> ParseNotifyChannels(call.arg)]
    /\ UNCHANGED handlerVars

SpecParse == InitParse /\ [][ParseNotifyChannelsCall]_vars

InitShould ==
    /\ ServerIdle
    /\ \E e \in EventNames, ts \in TargetLists :
           call = [fn |-> "shouldSendNotification",
                   arg |-> [event |-> Str(e),
                            details |-> [DefaultDetails EXCEPT !.slackTargets = ts]],
                   returned |-> FALSE]

ShouldSendNotificationCall ==
    /\ call.fn = "shouldSendNotification"
    /\ ~call.returned
    /\ call' = [fn |-> call.fn, arg |-> call.arg, returned |-> TRUE,
                result |-> Return(ShouldSendNotification(call.arg.event, call.arg.details))]
    /\ UNCHANGED handlerVars

SpecShould == InitShould /\ [][ShouldSendNotificationCall]_vars

InitExtract ==
    /\ ServerIdle
    /\ \E b \in Bodies :
           call = [fn |-> "extractWebhookDetails", arg |-> b, returned |-> FALSE]

ExtractWebhookDetailsCall ==
    /\ call.fn = "extractWebhookDetails"
    /\ ~call.returned
    /\ call' = [fn |-> call.fn, arg |-> call.arg, returned |-> TRUE,
                result |-> ExtractWebhookDetails(call.arg, DEFAULT_DETAILS)]
    /\ UNCHANGED handlerVars

SpecExtract == InitExtract /\ [][ExtractWebhookDetailsCall]_vars

\* the target lists that the program makes: parseNotifyChannels alone, and as
\* extractWebhookDetails calls it
SpecTargets ==
    (InitParse \/ InitExtract) /\ [][ParseNotifyChannelsCall \/ ExtractWebhookDetailsCall]_vars

----------------------------------------------------------------------------
(* Inputs of buildSlackMessage *)

\* a change list of n entries
ChangeEntry(i) == <<"c", "h", "a", "n", "g", "e", " ">> \o NatToString(i)
ChangeList(n) == [i \in 1..n |-> ChangeEntry(i)]
\* a comment text of n characters
CommentOfLen(n) == [i \in 1..n |-> DigitChars[(i % 10) + 1]]
CommentLens == {0, 1, CommentLimit - 1, CommentLimit, CommentLimit + 1, MaxCommentLen}

\* the names of a record: those of a card, or the defaults
NamedDetails ==
    { DefaultDetails,
      [DefaultDetails EXCEPT
          !.cardTitle = Str(<<"C", "a", "r", "d">>), !.username = Str(<<"a", "n", "n">>),
          !.boardName = Str(<<"M", "a", "i", "n">>), !.listName = Str(<<"T", "o", "d", "o">>),
          !.taskName = Str(<<"m", "i", "l", "k">>), !.taskCompleted = Bool(TRUE)] }

DetailRecords ==
    { [d EXCEPT !.changes = ChangeList(n), !.commentText = c] :
        d \in NamedDetails, n \in 0..MaxChanges,
        c \in {JsNull} \cup {Str(CommentOfLen(l)) : l \in CommentLens} }

\* what Date.now() can give, in milliseconds
Clock == {1999, 2000}

InitBuild ==
    /\ ServerIdle
    /\ \E e \in EventNames, d \in DetailRecords, ts \in TargetLists :
           call = [fn |-> "buildSlackMessage",
                   arg |-> [event |-> Str(e), details |-> d, targets |-> ts],
                   returned |-> FALSE, results |-> <<>>]

\* buildSlackMessage is called, a first and a second time with the same arguments, at
\* some time of the clock
BuildSlackMessageCall ==
    /\ call.fn = "buildSlackMessage"
    /\ Len(call.results) < 2
    /\ \E now \in Clock :
           call' = [call EXCEPT
                       !.returned = TRUE,
                       !.results = Append(@, BuildSlackMessage(call.arg.event, call.arg.details,
                                                               call.arg.targets, now))]
    /\ UNCHANGED handlerVars

SpecBuild == InitBuild /\ [][BuildSlackMessageCall]_vars

----------------------------------------------------------------------------
(* Inputs of the server *)

secret == <<"s", "3", "c", "r", "e", "t">>
ops == <<"#", "o", "p", "s">>
logs == <<"#", "l", "o", "g", "s">>

Configs ==
    { [ accessToken |-> Str(secret),
        slack |-> MkObj([botToken |-> Str(<<"x", "o", "x", "b">>), defaultChannel |-> Str(ops),
                         loggingChannel |-> Str(logs), botUsername |-> Str(<<"r", "e", "l", "a", "y">>),
                         botIcon |-> Absent]) ],
      [ accessToken |-> Str(secret),
        slack |-> MkObj([botToken |-> Str(<<"x", "o", "x", "b">>), defaultChannel |-> Absent,
                         loggingChannel |-> Absent, botUsername |-> Absent, botIcon |-> Absent]) ],
      [ accessToken |-> Str(secret),
        slack |-> MkObj([botToken |-> Str(<<>>), defaultChannel |-> Str(ops),
                         loggingChannel |-> Str(logs), botUsername |-> Absent, botIcon |-> Absent]) ],
      [ accessToken |-> Str(secret), slack |-> JsUndefined ],
      [ accessToken |-> JsUndefined,
        slack |-> MkObj([botToken |-> Str(<<"x", "o", "x", "b">>), defaultChannel |-> Absent,
                         loggingChannel |-> Absent, botUsername |-> Absent, botIcon |-> Absent]) ] }

NoToken == [authorization |-> JsUndefined, xAccessToken |-> JsUndefined, queryToken |-> JsUndefined]

Requests ==
    { [method |-> "OPTIONS", path |-> "/webhook"] @@ NoToken,
      [method |-> "GET", path |-> "/"] @@ NoToken,
      [method |-> "GET", path |-> "/health"] @@ NoToken,
      [method |-> "GET", path |-> "/webhook"] @@ NoToken,
      [method |-> "POST", path |-> "/webhook"] @@ NoToken,
      [ method |-> "POST", path |-> "/webhook",
        authorization |-> Str(<<"B", "e", "a", "r", "e", "r", " ", "w", "r", "o", "n", "g">>),
        xAccessToken |-> Str(secret), queryToken |-> JsUndefined ],
      [ method |-> "POST", path |-> "/webhook",
        authorization |-> Str(Bearer \o secret),
        xAccessToken |-> JsUndefined, queryToken |-> JsUndefined ] }

\* validateAccessToken alone: the headers and the query of a request are chosen, the
\* function is applied to them under a configuration with or without an access token
AuthorizationHeaders ==
    { JsUndefined, Str(<<>>), Str(Bearer), Str(Bearer \o secret), Str(secret),
      Str(<<"B", "e", "a", "r", "e", "r", " ", "w", "r", "o", "n", "g">>),
      Str(<<"s", "3", "c">> \o Bearer \o <<"r", "e", "t">>) }
TokenHeaders == {JsUndefined, Str(<<>>), Str(secret), Str(<<"w", "r", "o", "n", "g">>)}
QueryTokens == {JsUndefined, Str(secret), Str(<<"w", "r", "o", "n", "g">>), Arr(<<Str(secret), Str(secret)>>)}

InitValidate ==
    /\ \E a \in {Str(secret), JsUndefined} : config = [accessToken |-> a, slack |-> JsUndefined]
    /\ DEFAULT_DETAILS = DefaultDetails
    /\ server = "running"
    /\ requests = <<>>
    /\ \E h \in AuthorizationHeaders, x \in TokenHeaders, q \in QueryTokens :
           call = [fn |-> "validateAccessToken",
                   arg |-> [authorization |-> h, xAccessToken |-> x, queryToken |-> q],
                   returned |-> FALSE]

ValidateAccessTokenCall ==
    /\ call.fn = "validateAccessToken"
    /\ ~call.returned
    /\ call' = [fn |-> call.fn, arg |-> call.arg, returned |-> TRUE,
                result |-> Return(Bool(ValidateAccessToken(call.arg, config)))]
    /\ UNCHANGED handlerVars

SpecValidate == InitValidate /\ [][ValidateAccessTokenCall]_vars

textChannels == <<"n", "o", "t", "i", "f", "y", " ", "@", "j", "o", "h", "n", " ",
                  "#", "d", "e", "v", " ", "&", "t", "e", "a", "m">>
textShared == <<"n", "o", "t", "i", "f", "i", "c", "a", "t", "i", "o", "n", " ",
                "&", "t", "e", "a", "m">>

CardPayload(event, description) ==
    MkObj([ event |-> event,
            data |-> MkObj([ item |-> MkObj([name |-> Str(<<"T", "1">>), description |-> description]),
                             included |-> MkObj([lists |-> Arr(<<MkObj([name |-> Str(<<"T", "o", "d", "o">>)])>>)]) ]),
            user |-> MkObj([name |-> Str(<<"A", "n", "n">>)]) ])

CommentPayload(event, description) ==
    MkObj([ event |-> event,
            data |-> MkObj([ item |-> MkObj([text |-> Str(<<"h", "i">>)]),
                             included |-> MkObj([cards |-> Arr(<<MkObj([name |-> Str(<<"C", "1">>),
                                                                       description |-> description])>>)]) ]),
            user |-> MkObj([username |-> Str(<<"b", "o", "b">>)]) ])

\* a cardUpdate whose previous item had another name
UpdatePayload(description) ==
    MkObj([ event |-> Str(cardUpdate),
            data |-> MkObj([ item |-> MkObj([name |-> Str(<<"T", "1">>), description |-> description]),
                             included |-> MkObj([lists |-> Arr(<<MkObj([name |-> Str(<<"T", "o", "d", "o">>)])>>)]) ]),
            prevData |-> MkObj([item |-> MkObj([name |-> Str(<<"T", "0">>), description |-> description])]),
            user |-> MkObj([name |-> Str(<<"A", "n", "n">>)]) ])

\* the bodies that the requests of the server carry
RequestBodies ==
    { MalformedBody("not json"),
      JsonBody(JsNull),
      JsonBody(CardPayload(Str(cardCreate), Str(textChannels))),
      JsonBody(MkObj([event |-> Str(cardUpdate)])),
      JsonBody(UpdatePayload(Str(textUsersOnly))),
      JsonBody(CardPayload(Str(cardMove), Str(textNoKeyword))),
      JsonBody(CardPayload(Str(<<"c", "a", "r", "d", "D", "e", "l", "e", "t", "e">>), Str(textShared))),
      JsonBody(CardPayload(Num(5), Str(textShared))),
      JsonBody(CommentPayload(Str(commentCreate), Str(textShared))) }

----------------------------------------------------------------------------
(* The specification of the server *)

NoCall == [fn |-> "none", returned |-> TRUE]

InitServer ==
    /\ config \in Configs
    /\ DEFAULT_DETAILS = DefaultDetails
    /\ server = "running"
    /\ requests = [r \in 1..MaxRequests |-> NoRequest]

Init == InitServer /\ call = NoCall

Next ==
    \/ \E r \in 1..MaxRequests, req \in Requests : ReceiveRequest(r, req)
    \/ \E r \in 1..MaxRequests, body \in RequestBodies : RequestBodyEnd(r, body)
    \/ \E r \in 1..MaxRequests, outcome \in ApiOutcomes : SlackApiResponse(r, outcome)
    \/ \E r \in 1..MaxRequests, outcome \in AccessLogOutcomes : AccessLogResponse(r, outcome)
    \/ UnhandledRejection

Spec == Init /\ [][Next]_vars

----------------------------------------------------------------------------
(* What the claims say about parseNotifyChannels, stated on the text itself *)

ParseReturned == call.fn = "parseNotifyChannels" /\ call.returned
ParsedText == ParseReturned /\ IsString(call.arg) /\ ~call.result.threw

NameChar(c) == c \in Letters \cup Digits \cup {"-", "_"}
PrefixChar(c) == c \in {"&", "#", "@"}

\* the positions of text where a token starts: a prefix followed by a name character
TokenStarts(text) ==
    {p \in 1..(Len(text) - 1) : PrefixChar(text[p]) /\ NameChar(text[p + 1])}
\* the token starting at p: the prefix and the name characters that follow it
TokenEnd(text, p) ==
    CHOOSE e \in (p + 1)..Len(text) :
        /\ \A k \in (p + 1)..e : NameChar(text[k])
        /\ (e = Len(text) \/ ~NameChar(text[e + 1]))
TokenAt(text, p) == SubSeq(text, p, TokenEnd(text, p))

\* position p of text lies on a line that holds keyword kw, letter case ignored
KeywordOnLineOf(text, p, kw) ==
    \E i \in 1..(Len(text) - Len(kw) + 1) :
        /\ \A k \in 1..Len(kw) : LowerChar(text[i + k - 1]) = kw[k]
        /\ \A k \in (IF i < p THEN i ELSE p)..(IF i < p THEN p ELSE i) : text[k] # "\n"
OnKeywordLine(text, p) ==
    KeywordOnLineOf(text, p, notify) \/ KeywordOnLineOf(text, p, notification)

\* where the tokens of the keyword lines start, and where a token first occurs on one
KeywordTokenStarts(text) == {p \in TokenStarts(text) : OnKeywordLine(text, p)}
FirstStart(text, tok) ==
    CHOOSE p \in KeywordTokenStarts(text) :
        /\ TokenAt(text, p) = tok
        /\ \A q \in KeywordTokenStarts(text) : TokenAt(text, q) = tok => p <= q

\* C2: the sequence parseNotifyChannels returns holds no string twice, and a token
\* that occurs on keyword lines, once or several times, is in it exactly once.
C2_NoDuplicateTargets ==
    ParsedText =>
        LET res == call.result.v
            text == call.arg.s
        IN /\ \A i, j \in DOMAIN res : i # j => res[i] # res[j]
           /\ \A p \in KeywordTokenStarts(text) :
                  Cardinality({i \in DOMAIN res : res[i] = TokenAt(text, p)}) = 1

\* a token occurs on two keyword lines, and was returned
C2_Witness ==
    /\ ParsedText
    /\ \E p, q \in KeywordTokenStarts(call.arg.s) :
           /\ p < q
           /\ TokenAt(call.arg.s, p) = TokenAt(call.arg.s, q)
           /\ \E k \in p..q : call.arg.s[k] = "\n"
    /\ Len(call.result.v) >= 1

\* the target list that the call has made
TargetsMade ==
    IF call.fn = "parseNotifyChannels" THEN call.result.v ELSE call.result.v.slackTargets

\* C3: every string of the target list of a detail record that extractWebhookDetails
\* makes, and every string that parseNotifyChannels returns, is one of &, # and @
\* followed by one or more letters, digits, hyphens and underscores.
C3_TargetShape ==
    (call.fn \in {"parseNotifyChannels", "extractWebhookDetails"}
        /\ call.returned /\ ~call.result.threw) =>
        \A i \in DOMAIN TargetsMade :
            LET tok == TargetsMade[i]
            IN /\ Len(tok) >= 2
               /\ PrefixChar(tok[1])
               /\ \A k \in 2..Len(tok) : NameChar(tok[k])

\* a detail record was made with several targets in its list
C3_Witness ==
    /\ call.fn = "extractWebhookDetails"
    /\ call.returned
    /\ ~call.result.threw
    /\ Len(call.result.v.slackTargets) >= 2

\* C4: a string is returned only if it is a token of a line that holds "notify" or
\* "notification"; a text without such a line yields the empty sequence.
C4_OnlyKeywordLines ==
    ParsedText =>
        LET res == call.result.v
            text == call.arg.s
        IN /\ \A i \in DOMAIN res :
                  \E p \in KeywordTokenStarts(text) : res[i] = TokenAt(text, p)
           /\ (\A p \in 1..Len(text) : ~OnKeywordLine(text, p)) => res = <<>>

\* one line has the keyword and a token, another line has a token of its own and no
\* keyword: the first token is returned, the second is not
C4_Witness ==
    /\ ParsedText
    /\ Len(call.result.v) >= 1
    /\ \E p \in TokenStarts(call.arg.s) :
           /\ ~OnKeywordLine(call.arg.s, p)
           /\ ~SeqIncludes(call.result.v, TokenAt(call.arg.s, p))

\* C5: the returned sequence holds the tokens of the keyword lines in the order of their
\* first occurrence, lines top to bottom and each line left to right.
C5_FirstOccurrenceOrder ==
    ParsedText =>
        LET res == call.result.v
            text == call.arg.s
        IN /\ {res[i] : i \in DOMAIN res} = {TokenAt(text, p) : p \in KeywordTokenStarts(text)}
           /\ \A i, j \in DOMAIN res :
                  i < j => FirstStart(text, res[i]) < FirstStart(text, res[j])

\* different tokens were returned, from two keyword lines
C5_Witness ==
    /\ ParsedText
    /\ Len(call.result.v) >= 2
    /\ \E p, q \in KeywordTokenStarts(call.arg.s) : \E k \in p..q : call.arg.s[k] = "\n"

\* the text has a keyword in lower case on some line
LowerCaseKeyword(text) ==
    Includes(text, notify) \/ Includes(text, notification)

\* C6: the keyword test ignores the letter case, and the tokens are returned and
\* compared with their letter case unchanged: every token of a line whose keyword is
\* written in any letter case is returned as written, and two tokens that differ only
\* in letter case are two targets.
C6_KeywordCaseInsensitive ==
    ParsedText =>
        LET res == call.result.v
            text == call.arg.s
        IN /\ \A p \in KeywordTokenStarts(text) : SeqIncludes(res, TokenAt(text, p))
           /\ \A p, q \in KeywordTokenStarts(text) :
                  TokenAt(text, p) # TokenAt(text, q) =>
                      \E i, j \in DOMAIN res :
                          i # j /\ res[i] = TokenAt(text, p) /\ res[j] = TokenAt(text, q)

\* no keyword of the text is in lower case, and two tokens that differ only in letter
\* case were both returned
C6_Witness ==
    /\ ParsedText
    /\ ~LowerCaseKeyword(call.arg.s)
    /\ \E i, j \in DOMAIN call.result.v :
           /\ call.result.v[i] # call.result.v[j]
           /\ ToLowerCase(call.result.v[i]) = ToLowerCase(call.result.v[j])

\* an absent value, the empty string, or a value that is not a string
NotAText(v) == v.t \in {"undefined", "null"} \/ v = Str(<<>>) \/ v.t # "string"

\* C7: for an absent value, the empty string and a value that is not a string,
\* parseNotifyChannels returns the empty sequence and does not throw.
C7_NoTextNoTargets ==
    (ParseReturned /\ NotAText(call.arg)) => call.result = Return(<<>>)

\* the function returned for a truthy value that is not a string
C7_Witness ==
    /\ ParseReturned
    /\ call.arg.t \in {"number", "object", "array", "boolean"}
    /\ Truthy(call.arg)

----------------------------------------------------------------------------
(* What the claims say about shouldSendNotification and extractWebhookDetails *)

AllowedEventKinds ==
    { cardCreate, cardUpdate, cardEdit, cardMove, cardArchive, cardRestore,
      commentCreate, commentUpdate, taskCreate, taskUpdate, taskDelete }

ShouldReturned == call.fn = "shouldSendNotification" /\ call.returned

\* C1: shouldSendNotification(e, d) is true exactly when e is one of the eleven event
\* kinds of the allow-list and the target list of d is not empty.
C1_ShouldNotifyIff ==
    ShouldReturned =>
        /\ ~call.result.threw
        /\ call.result.v <=> (/\ call.arg.event.s \in AllowedEventKinds
                               /\ call.arg.details.slackTargets # <<>>)

\* the answer was true, for a listed event kind and a target list that is not empty
C1_Witness ==
    /\ ShouldReturned
    /\ call.result.v
    /\ call.arg.event.s \in AllowedEventKinds
    /\ Len(call.arg.details.slackTargets) >= 1

\* the record with every field at its default
AllDefaults ==
    [ cardTitle |-> Str(<<"N", "/", "A">>), boardName |-> Str(<<"N", "/", "A">>),
      listName |-> Str(<<"N", "/", "A">>), username |-> Str(<<"N", "/", "A">>),
      slackTargets |-> <<>>, changes |-> <<>>,
      commentText |-> JsNull, taskName |-> JsNull, description |-> JsNull,
      isComment |-> Bool(FALSE), isTask |-> Bool(FALSE), taskCompleted |-> Bool(FALSE) ]

ExtractReturned == call.fn = "extractWebhookDetails" /\ call.returned

\* C9: for a body that does not parse as JSON, extractWebhookDetails does not throw
\* and returns the record with every field at its default.
C9_MalformedGivesDefaults ==
    (ExtractReturned /\ ~call.arg.json) => call.result = Return(AllDefaults)

\* extractWebhookDetails returned for a body that is not JSON
C9_Witness ==
    /\ ExtractReturned
    /\ ~call.arg.json
    /\ ~call.result.threw

----------------------------------------------------------------------------
(* What the claims say about the server *)

\* the handler of r has read the body of the request
BodyRead(r) == requests[r].pc \in {"returned", "rejected"} /\ requests[r].handled # Throw("none")
\* the handler of r has called sendNotification
Notified(r) == BodyRead(r) /\ ~requests[r].handled.threw /\ requests[r].handled.v.notify

\* the first of the targets with the prefix & or #, else the default channel of the
\* configuration, else #general
ChannelOf(targets) ==
    LET shaped == {i \in DOMAIN targets : targets[i][1] \in {"&", "#"}}
        default == IF config.slack.t = "object" /\ "defaultChannel" \in DOMAIN config.slack.o
                      /\ config.slack.o.defaultChannel # Str(<<>>)
                   THEN config.slack.o.defaultChannel.s
                   ELSE <<"#", "g", "e", "n", "e", "r", "a", "l">>
    IN IF shaped # {}
       THEN targets[CHOOSE i \in shaped : \A j \in shaped : i <= j]
       ELSE default

BotToken == config.slack.t = "object" /\ "botToken" \in DOMAIN config.slack.o
                /\ config.slack.o.botToken # Str(<<>>)

\* C8: the notification is posted to the first target with the prefix & or #, the @
\* targets before it skipped; with no such target it is posted all the same, to the
\* default channel of the configuration, or to #general when there is none. (A bot
\* token is configured: without one nothing is posted.)
C8_ChannelSelection ==
    \A r \in DOMAIN requests :
        (Notified(r) /\ BotToken) =>
            /\ Len(requests[r].calls) >= 1
            /\ requests[r].calls[1].purpose = "notification"
            /\ requests[r].calls[1].target = ChannelOf(requests[r].handled.v.details.slackTargets)

\* one notification went to a channel that stands after an @ target in the list,
\* another one, with @ targets only, to the default channel
C8_Witness ==
    \E r1, r2 \in DOMAIN requests :
        /\ Notified(r1) /\ Notified(r2)
        /\ Len(requests[r1].calls) >= 1 /\ Len(requests[r2].calls) >= 1
        /\ requests[r1].handled.v.details.slackTargets[1][1] = "@"
        /\ requests[r1].calls[1].target[1] \in {"&", "#"}
        /\ requests[r1].calls[1].target \in Range(requests[r1].handled.v.details.slackTargets)
        /\ \A i \in DOMAIN requests[r2].handled.v.details.slackTargets :
               requests[r2].handled.v.details.slackTargets[i][1] = "@"
        /\ requests[r2].calls[1].target \notin Range(requests[r2].handled.v.details.slackTargets)

\* C10: for an authenticated POST /webhook whose body is not JSON the handler ends
\* without an error, dispatches no notification and answers the request.
C10_MalformedBodyIsNoOp ==
    \A r \in DOMAIN requests :
        (BodyRead(r) /\ ~requests[r].body.json) =>
            /\ requests[r].pc = "returned"
            /\ requests[r].status = 200
            /\ requests[r].calls = <<>>

----------------------------------------------------------------------------
(* What the claims say about the records of extractWebhookDetails *)

\* the payload that the body of the call parses to
Payload == call.arg.value
\* the value at the end of a path of properties, undefined as soon as one is missing
RECURSIVE At(_, _)
At(v, path) ==
    IF path = <<>> THEN v
    ELSE IF v.t = "object" /\ Head(path) \in DOMAIN v.o THEN At(v.o[Head(path)], Tail(path))
    ELSE [t |-> "undefined"]
DetailFields ==
    { "cardTitle", "boardName", "listName", "username", "slackTargets", "commentText",
      "isComment", "isTask", "taskName", "taskCompleted", "description", "changes" }

\* C11: for every body that parses as JSON, whatever is missing or null in it, and
\* whether its event is a string or not, extractWebhookDetails does not throw and
\* returns a record with every field.
C11_ParseableNeverThrows ==
    (ExtractReturned /\ call.arg.json) =>
        /\ ~call.result.threw
        /\ DOMAIN call.result.v = DetailFields

\* the payload has an item, and its event is a string
HasItem == Truthy(At(Payload, <<"data", "item">>))
EventKind == At(Payload, <<"event">>)
StringEvent == EventKind.t = "string"
\* sub occurs in s
Contains(s, sub) == \E i \in 0..(Len(s) - Len(sub)) : SubSeq(s, i + 1, i + Len(sub)) = sub
\* the kind of event that a record stands for
KindOf(details) ==
    IF details.isComment.b THEN "comment" ELSE IF details.isTask.b THEN "task" ELSE "card"

\* C12 as stated: the record of a payload with an item is that of a comment event when
\* the event kind contains "comment" in any letter case, else that of a task event
\* when it contains "task" in any letter case, else that of a card event.
C12_ClassifyCaseInsensitive ==
    (ExtractReturned /\ call.arg.json /\ HasItem /\ StringEvent /\ ~call.result.threw) =>
        KindOf(call.result.v) =
            IF Contains(ToLowerCase(EventKind.s), <<"c", "o", "m", "m", "e", "n", "t">>) THEN "comment"
            ELSE IF Contains(ToLowerCase(EventKind.s), <<"t", "a", "s", "k">>) THEN "task"
            ELSE "card"

\* what the event kind is by the spellings "Comment", "comment", "task" and "Task"
KindBySpelling(e) ==
    IF Contains(e, <<"C", "o", "m", "m", "e", "n", "t">>)
       \/ Contains(e, <<"c", "o", "m", "m", "e", "n", "t">>) THEN "comment"
    ELSE IF Contains(e, <<"t", "a", "s", "k">>) \/ Contains(e, <<"T", "a", "s", "k">>) THEN "task"
    ELSE "card"

\* C12 as amended: the record of a payload with an item is that of a comment event when
\* the event kind contains "Comment" or "comment" as written, else that of a task event
\* when it contains "task" or "Task" as written, else that of a card event; no record
\* is returned only for comment and task events.
C12_ClassifyBySpelling ==
    (ExtractReturned /\ call.arg.json /\ HasItem /\ StringEvent) =>
        IF call.result.threw THEN KindBySpelling(EventKind.s) # "card"
        ELSE /\ KindOf(call.result.v) = KindBySpelling(EventKind.s)
             /\ ~(call.result.v.isComment.b /\ call.result.v.isTask.b)

\* a record of a comment event was returned for an event kind that contains "task" too
C12_Witness ==
    /\ ExtractReturned /\ call.arg.json /\ HasItem /\ StringEvent
    /\ ~call.result.threw
    /\ Contains(EventKind.s, <<"t", "a", "s", "k">>)
    /\ Contains(EventKind.s, <<"C", "o", "m", "m", "e", "n", "t">>)
    /\ call.result.v.isComment.b
    /\ ~call.result.v.isTask.b

\* a value that || keeps: each value but undefined, null, false, 0 and the empty string
Kept(v) ==
    /\ v.t \notin {"undefined", "null"}
    /\ v \notin {[t |-> "boolean", b |-> FALSE], [t |-> "number", n |-> 0],
                 [t |-> "string", s |-> <<>>]}
\* a, or else b, or else "N/A"
OrElseNA(a, b) ==
    IF Kept(a) THEN a ELSE IF Kept(b) THEN b ELSE [t |-> "string", s |-> <<"N", "/", "A">>]
\* the first entry of the collection at the path
FirstAt(path) ==
    LET coll == At(Payload, path)
    IN IF coll.t = "array" /\ Len(coll.a) > 0 THEN coll.a[1] ELSE [t |-> "undefined"]
NameOfUser ==
    OrElseNA(At(Payload, <<"user", "name">>), At(Payload, <<"user", "username">>))
NameOfBoard ==
    OrElseNA(At(FirstAt(<<"data", "included", "boards">>), <<"name">>), [t |-> "undefined"])
NameOfList ==
    OrElseNA(At(FirstAt(<<"data", "included", "lists">>), <<"name">>), [t |-> "undefined"])

\* C13 as stated: in the record of every parseable payload, with or without an item,
\* username is user.name, else user.username, else "N/A", and boardName and listName
\* are the names of the first entries of included.boards and included.lists, else
\* "N/A".
C13_NamesAlways ==
    (ExtractReturned /\ call.arg.json /\ ~call.result.threw) =>
        /\ call.result.v.username = NameOfUser
        /\ call.result.v.boardName = NameOfBoard
        /\ call.result.v.listName = NameOfList

\* C13 as amended: in the record of a parseable payload that has an item, whatever the
\* event kind, username is user.name, else user.username, else "N/A" (an empty name
\* counts as none), and boardName and listName are the names of the first entries of
\* included.boards and included.lists, else "N/A"; in the record of a payload without
\* an item the three are "N/A".
C13_NamesWithItem ==
    (ExtractReturned /\ call.arg.json /\ ~call.result.threw) =>
        IF HasItem
        THEN /\ call.result.v.username = NameOfUser
             /\ call.result.v.boardName = NameOfBoard
             /\ call.result.v.listName = NameOfList
        ELSE /\ call.result.v.username = [t |-> "string", s |-> <<"N", "/", "A">>]
             /\ call.result.v.boardName = [t |-> "string", s |-> <<"N", "/", "A">>]
             /\ call.result.v.listName = [t |-> "string", s |-> <<"N", "/", "A">>]

\* the record of a task event has the username of a user without a name, and the names
\* of the first board and list
C13_Witness ==
    /\ ExtractReturned /\ call.arg.json /\ ~call.result.threw /\ HasItem
    /\ call.result.v.isTask.b
    /\ At(Payload, <<"user", "name">>).t = "undefined"
    /\ call.result.v.username = At(Payload, <<"user", "username">>)
    /\ call.result.v.username.s = <<"b", "o", "b">>
    /\ call.result.v.listName.s = <<"D", "o", "n", "e">>
    /\ call.result.v.boardName.s = <<"D", "o", "n", "e">>

\* v when || null keeps it, else null
OrElseNull(v) == IF Kept(v) THEN v ELSE [t |-> "null"]
\* the description of the card of the payload: that of the item for a card event, that
\* of the first entry of included.cards, if there is one, for a comment or task event
CardDescription(kind) ==
    IF kind = "card" THEN OrElseNull(At(Payload, <<"data", "item", "description">>))
    ELSE OrElseNull(At(FirstAt(<<"data", "included", "cards">>), <<"description">>))

\* C14: the target list of a record is parseNotifyChannels of the description of the
\* card, for card, comment and task events alike; for a comment or task event this is
\* the description of the first entry of included.cards, so that without an included
\* card the target list is empty and shouldSendNotification is false.
C14_TargetsFromCardDescription ==
    (ExtractReturned /\ call.arg.json /\ ~call.result.threw) =>
        /\ Return(call.result.v.slackTargets) = ParseNotifyChannels(call.result.v.description)
        /\ HasItem => call.result.v.description = CardDescription(KindOf(call.result.v))
        /\ (/\ KindOf(call.result.v) # "card"
            /\ FirstAt(<<"data", "included", "cards">>).t = "undefined") =>
               /\ call.result.v.slackTargets = <<>>
               /\ ~ShouldSendNotification(EventKind, call.result.v)

\* the record of a comment event whose text names a target has the targets of the
\* included card, which are not those of the text and not those of the item
C14_Witness ==
    /\ ExtractReturned /\ call.arg.json /\ ~call.result.threw /\ HasItem
    /\ call.result.v.isComment.b
    /\ call.result.v.commentText.s = <<"n", "o", "t", "i", "f", "y", " ", "#", "y", "o">>
    /\ At(Payload, <<"data", "item", "description">>).s
           = <<"N", "o", "t", "i", "f", "y", ":", " ", "@", "j", "o", "h", "n">>
    /\ call.result.v.slackTargets = << <<"&", "t", "e", "a", "m">>, <<"@", "j", "o", "h", "n">> >>

\* the payload is a cardUpdate with an item and a previous item
IsCardUpdate ==
    /\ HasItem
    /\ EventKind = [t |-> "string", s |-> <<"c", "a", "r", "d", "U", "p", "d", "a", "t", "e">>]
    /\ Kept(At(Payload, <<"prevData", "item">>))
\* s begins with pre
BeginsWith(s, pre) == Len(s) >= Len(pre) /\ SubSeq(s, 1, Len(pre)) = pre
\* the field that an entry of the change list is about
EntryField(entry) ==
    CASE BeginsWith(entry, <<"t", "i", "t", "l", "e", ":", " ">>) -> "name"
      [] BeginsWith(entry, <<"d", "e", "s", "c", "r", "i", "p", "t", "i", "o", "n", " ">>) -> "description"
      [] BeginsWith(entry, <<"d", "u", "e", " ", "d", "a", "t", "e", ":", " ">>) -> "dueDate"
      [] BeginsWith(entry, <<"m", "o", "v", "e", "d", ":", " ">>) -> "listId"
      [] BeginsWith(entry, <<"m", "a", "r", "k", "e", "d", " ">>) -> "isCompleted"
      [] OTHER -> "none"
\* the field has one value in the previous item and another in the item
Differs(k) == At(Payload, <<"prevData", "item", k>>) # At(Payload, <<"data", "item", k>>)
ComparedFields == <<"name", "description", "dueDate", "listId", "isCompleted">>
DifferingFields == SelectSeq(ComparedFields, Differs)

\* C15: the change list of a cardUpdate that has an item and a previous item has one
\* entry for each of name, description, dueDate, listId and isCompleted whose two
\* values differ, in this order, and none for a field whose values are equal; the
\* change list of every other payload is empty.
C15_ChangesPerDifferingField ==
    (ExtractReturned /\ call.arg.json /\ ~call.result.threw) =>
        IF IsCardUpdate
        THEN [i \in DOMAIN call.result.v.changes |-> EntryField(call.result.v.changes[i])]
                 = DifferingFields
        ELSE call.result.v.changes = <<>>

\* the change list of a cardUpdate has four entries, the list being the same
C15_Witness ==
    /\ ExtractReturned /\ call.arg.json /\ ~call.result.threw
    /\ IsCardUpdate
    /\ ~Differs("listId")
    /\ Len(call.result.v.changes) = 4
    /\ Differs("dueDate") /\ Differs("isCompleted")

\* the name of the first list at the path, "unknown" when there is none
ListNameAt(path) ==
    LET name == At(FirstAt(path), <<"name">>)
    IN IF Kept(name) THEN name.s ELSE <<"u", "n", "k", "n", "o", "w", "n">>

\* C16: when listId is the only field that differs in a cardUpdate, the change list has
\* exactly one entry, "moved: <old> U+2192 <new>", with the name of the first list of
\* the included data of the previous payload and that of the first list of the
\* included data of the payload ("unknown" for a list that is not there).
C16_ListMoveEntry ==
    (/\ ExtractReturned /\ call.arg.json /\ ~call.result.threw
     /\ IsCardUpdate /\ DifferingFields = <<"listId">>) =>
        call.result.v.changes =
            << <<"m", "o", "v", "e", "d", ":", " ">>
               \o ListNameAt(<<"prevData", "included", "lists">>)
               \o <<" ", "U+2192", " ">>
               \o ListNameAt(<<"data", "included", "lists">>) >>

\* a card went from the list Todo to the list Done and nothing else changed
C16_Witness ==
    /\ ExtractReturned /\ call.arg.json /\ ~call.result.threw
    /\ IsCardUpdate /\ DifferingFields = <<"listId">>
    /\ call.result.v.changes =
           << <<"m", "o", "v", "e", "d", ":", " ", "T", "o", "d", "o", " ", "U+2192", " ",
                "D", "o", "n", "e">> >>

----------------------------------------------------------------------------
(* What the claims say about buildSlackMessage *)

BuildReturned == call.fn = "buildSlackMessage" /\ call.returned
\* the attachment that the i-th call returned
Attachment(i) == call.results[i].v.attachments[1]
\* the text of the message for the same event and record and no targets
TextWithoutTargets ==
    BuildSlackMessage(call.arg.event, call.arg.details, <<>>, 0).v.attachments[1].text
\* the @ targets in the order of the list, each after one space
RECURSIVE MentionsOf(_)
MentionsOf(targets) ==
    IF targets = <<>> THEN <<>>
    ELSE (IF Head(targets)[1] = "@" THEN <<" ">> \o Head(targets) ELSE <<>>)
         \o MentionsOf(Tail(targets))

\* C17: for every event kind the text of the message is the text for no targets
\* followed by the @ targets, in the order of the list and each after one space;
\* nothing is added without an @ target, and no & or # target is in what is added.
C17_MentionsSuffix ==
    BuildReturned =>
        \A i \in DOMAIN call.results :
            /\ ~call.results[i].threw
            /\ Attachment(i).text = TextWithoutTargets \o MentionsOf(call.arg.targets)

\* a message for the targets @john, #dev, &team ends with " @john" and has no #dev
C17_Witness ==
    /\ BuildReturned
    /\ call.arg.targets = << <<"@", "j", "o", "h", "n">>, <<"#", "d", "e", "v">>,
                             <<"&", "t", "e", "a", "m">> >>
    /\ Attachment(1).text = TextWithoutTargets \o <<" ", "@", "j", "o", "h", "n">>
    /\ ~Contains(Attachment(1).text, <<"#", "d", "e", "v">>)
    /\ ~Contains(Attachment(1).text, <<"&", "t", "e", "a", "m">>)

\* the call formats a comment event whose comment text is a string
FormatsComment ==
    /\ BuildReturned
    /\ call.arg.event = [t |-> "string",
                         s |-> <<"c", "o", "m", "m", "e", "n", "t", "C", "r", "e", "a", "t", "e">>]
    /\ call.arg.details.commentText.t = "string"
\* the comment as the message has it: the first 100 characters and "..." of a comment
\* of more than 100 characters, else the comment
CommentPart(c) ==
    IF Len(c) > 100 THEN [i \in 1..100 |-> c[i]] \o <<".", ".", ".">> ELSE c
\* the text of a comment event before the comment
CommentHead ==
    <<"U+1F4AC", " ", "*">> \o call.arg.details.cardTitle.s \o <<"*", "\n", "_">>
    \o call.arg.details.username.s \o <<":", "_", " ">>

\* C18: the message of a comment event has the comment text unchanged when it has at
\* most 100 characters, and its first 100 characters followed by "..." when it has
\* more; the comment part has at most 103 characters.
C18_CommentTruncated ==
    FormatsComment =>
        \A i \in DOMAIN call.results :
            /\ ~call.results[i].threw
            /\ Attachment(i).text = CommentHead \o CommentPart(call.arg.details.commentText.s)
                                        \o MentionsOf(call.arg.targets)
            /\ Len(CommentPart(call.arg.details.commentText.s)) <= 103

\* a comment of more than 100 characters was cut to 103
C18_Witness ==
    /\ FormatsComment
    /\ Len(call.arg.details.commentText.s) > 100
    /\ Len(Attachment(1).text) = Len(CommentHead) + 103 + Len(MentionsOf(call.arg.targets))
    /\ Contains(Attachment(1).text, <<"8", "9", "0", ".", ".", ".">>)

\* the call formats an update event
FormatsUpdate ==
    /\ BuildReturned
    /\ call.arg.event.s \in {<<"c", "a", "r", "d", "U", "p", "d", "a", "t", "e">>,
                              <<"c", "a", "r", "d", "E", "d", "i", "t">>}
\* the entries, with ", " between them
RECURSIVE CommaJoined(_)
CommaJoined(entries) ==
    IF entries = <<>> THEN <<>>
    ELSE IF Len(entries) = 1 THEN entries[1]
    ELSE entries[1] \o <<",", " ">> \o CommaJoined(Tail(entries))
\* a number below 10 as a text
OneDigit(k) == << <<"0", "1", "2", "3", "4", "5", "6", "7", "8", "9">>[k + 1] >>
\* the first min(n, 3) of the n changes and, when n > 3, "(+k more)" with k = n - 3
ChangesPart(changes) ==
    LET n == Len(changes)
    IN CommaJoined([i \in 1..(IF n < 3 THEN n ELSE 3) |-> changes[i]])
       \o (IF n > 3 THEN <<" ", "(", "+">> \o OneDigit(n - 3) \o <<" ", "m", "o", "r", "e", ")">>
           ELSE <<>>)
UpdateHead == <<"U+270F", "U+FE0F", " ", "*">> \o call.arg.details.cardTitle.s \o <<"*", "\n", "_">>
PlaceOfCard ==
    call.arg.details.boardName.s \o <<" ", "U+203A", " ">> \o call.arg.details.listName.s

\* C19: the message of a cardUpdate or cardEdit with n > 0 changes shows the first
\* min(n, 3) of them with ", " between them and, exactly when n > 3, "(+k more)" with
\* k = n - 3; with no changes it shows the line "Updated by <username>".
C19_ChangesShown ==
    FormatsUpdate =>
        \A i \in DOMAIN call.results :
            /\ ~call.results[i].threw
            /\ Attachment(i).text =
                  IF Len(call.arg.details.changes) > 0
                  THEN UpdateHead \o ChangesPart(call.arg.details.changes) \o <<"_", "\n">>
                       \o call.arg.details.username.s \o <<" ", "i", "n", " ">> \o PlaceOfCard
                       \o MentionsOf(call.arg.targets)
                  ELSE UpdateHead \o <<"U", "p", "d", "a", "t", "e", "d", " ", "b", "y", " ">>
                       \o call.arg.details.username.s \o <<"_", "\n">> \o PlaceOfCard
                       \o MentionsOf(call.arg.targets)
            /\ Contains(Attachment(i).text, <<" ", "m", "o", "r", "e", ")">>)
                   <=> Len(call.arg.details.changes) > 3

\* the message of a cardEdit with five changes shows three of them and "(+2 more)"
C19_Witness ==
    /\ FormatsUpdate
    /\ call.arg.event.s = <<"c", "a", "r", "d", "E", "d", "i", "t">>
    /\ Len(call.arg.details.changes) = 5
    /\ Contains(Attachment(1).text,
                call.arg.details.changes[3] \o <<" ", "(", "+", "2", " ", "m", "o", "r", "e", ")">>)
    /\ ~Contains(Attachment(1).text, call.arg.details.changes[4])

\* the color of each event kind that has a template of its own (cardUpdate and
\* cardEdit have the same one)
TemplateColors ==
    [ cardCreate |-> <<"#", "3", "6", "a", "6", "4", "f">>,
      cardUpdate |-> <<"#", "f", "f", "9", "5", "0", "0">>,
      cardEdit |-> <<"#", "f", "f", "9", "5", "0", "0">>,
      cardMove |-> <<"#", "0", "0", "7", "c", "b", "a">>,
      commentCreate |-> <<"#", "9", "c", "2", "7", "b", "0">>,
      taskCreate |-> <<"#", "4", "c", "a", "f", "5", "0">>,
      taskUpdate |-> <<"#", "f", "f", "9", "8", "0", "0">>,
      taskDelete |-> <<"#", "f", "4", "4", "3", "3", "6">> ]
\* the sign that the text of each of them begins with, and what follows the line of
\* the title
TemplateSigns ==
    [ cardCreate |-> <<"U+1F195">>, cardUpdate |-> <<"U+270F", "U+FE0F">>,
      cardEdit |-> <<"U+270F", "U+FE0F">>, cardMove |-> <<"U+1F4E4">>,
      commentCreate |-> <<"U+1F4AC">>, taskCreate |-> <<"U+2611", "U+FE0F">>,
      taskUpdate |-> <<"U+2611", "U+FE0F">>, taskDelete |-> <<"U+2611", "U+FE0F">> ]
TemplateWords ==
    [ cardCreate |-> <<"C", "r", "e", "a", "t", "e", "d", " ", "b", "y", " ">>,
      cardUpdate |-> <<"_">>,
      cardEdit |-> <<"_">>,
      cardMove |-> <<"M", "o", "v", "e", "d", " ", "t", "o", " ">>,
      commentCreate |-> <<"_">> \o call.arg.details.username.s \o <<":", "_", " ">>,
      taskCreate |-> <<"N", "e", "w", " ", "t", "a", "s", "k", ":", " ", "\"">>,
      taskUpdate |-> <<"T", "a", "s", "k", " ", "\"">> \o JsToString(call.arg.details.taskName)
                     \o <<"\"", " ">>,
      taskDelete |-> <<"T", "a", "s", "k", " ", "\"">> \o JsToString(call.arg.details.taskName)
                     \o <<"\"", " ", "d", "e", "l", "e", "t", "e", "d">> ]
\* the name of the event kind as the name of a field
RECURSIVE Glued(_)
Glued(chars) == IF chars = <<>> THEN "" ELSE Head(chars) \o Glued(Tail(chars))
EventField == Glued(call.arg.event.s)
NeutralGrey == <<"#", "6", "0", "7", "d", "8", "b">>

\* C20: two calls of buildSlackMessage with the same event kind, record and targets
\* give the same color and text, at whatever times they are made; each of the event
\* kinds cardCreate, cardUpdate, cardEdit, cardMove, commentCreate, taskCreate,
\* taskUpdate and taskDelete has the color and the text of its template, and every
\* other event kind has the grey color and the generic text, in which the event kind
\* stands as it was given.
C20_ColorAndTemplateByKind ==
    BuildReturned =>
        \A i \in DOMAIN call.results :
            /\ ~call.results[i].threw
            /\ \A j \in DOMAIN call.results :
                   /\ Attachment(i).color = Attachment(j).color
                   /\ Attachment(i).text = Attachment(j).text
            /\ IF EventField \in DOMAIN TemplateColors
               THEN /\ Attachment(i).color = TemplateColors[EventField]
                    /\ Attachment(i).color # NeutralGrey
                    /\ BeginsWith(Attachment(i).text,
                                  TemplateSigns[EventField] \o <<" ", "*">>
                                  \o call.arg.details.cardTitle.s \o <<"*", "\n">>
                                  \o TemplateWords[EventField])
               ELSE /\ Attachment(i).color = NeutralGrey
                    /\ Attachment(i).text =
                           <<"U+1F4CB", " ", "*">> \o call.arg.details.cardTitle.s
                           \o <<"*", "\n">> \o call.arg.event.s \o <<" ", "b", "y", " ">>
                           \o call.arg.details.username.s \o MentionsOf(call.arg.targets)

\* commentUpdate, which has no template of its own, was formatted twice, at two times:
\* the two messages are grey and have the same generic text with "commentUpdate by"
C20_Witness ==
    /\ BuildReturned
    /\ Len(call.results) = 2
    /\ call.arg.event.s = <<"c", "o", "m", "m", "e", "n", "t", "U", "p", "d", "a", "t", "e">>
    /\ Attachment(1).ts # Attachment(2).ts
    /\ Attachment(1).color = NeutralGrey
    /\ Attachment(1).text = Attachment(2).text
    /\ Contains(Attachment(1).text,
                <<"c", "o", "m", "m", "e", "n", "t", "U", "p", "d", "a", "t", "e", " ", "b", "y", " ">>)

----------------------------------------------------------------------------
(* What the claims say about the delivery *)

\* the calls of chat.postMessage that carry the notification of request r
NotificationCalls(r) ==
    {i \in DOMAIN requests[r].calls : requests[r].calls[i].purpose = "notification"}
\* the ways a call of chat.postMessage fails
FailedOutcomes ==
    {"channel_not_found", "not_in_channel", "invalid_auth", "network error", "invalid JSON"}

\* C21: for each webhook request at most one call of chat.postMessage carries the
\* notification; when it has failed, by an error reply, a network error or a reply that
\* is not JSON, no second one is made.
C21_SingleDeliveryAttempt ==
    \A r \in DOMAIN requests :
        /\ Cardinality(NotificationCalls(r)) <= 1
        /\ requests[r].notification = "posting" =>
               /\ NotificationCalls(r) = {1}
               /\ requests[r].calls[1].outcome = "in flight"
        /\ (NotificationCalls(r) # {} /\ requests[r].calls[1].outcome \in FailedOutcomes) =>
               requests[r].notification \in {"false", "logging"}

\* one notification failed by a network error, another by a reply that is not JSON:
\* each was attempted once and is given up
C21_Witness ==
    \E r1, r2 \in DOMAIN requests :
        /\ NotificationCalls(r1) = {1} /\ NotificationCalls(r2) = {1}
        /\ requests[r1].calls[1].outcome = "network error"
        /\ requests[r2].calls[1].outcome = "invalid JSON"
        /\ requests[r1].notification = "false"
        /\ requests[r2].notification = "false"

\* the calls of chat.postMessage of request r that ask for access to a channel
AccessCalls(r) ==
    {i \in DOMAIN requests[r].calls : requests[r].calls[i].purpose = "access needed"}
LoggingChannelSet ==
    /\ config.slack.t = "object"
    /\ "loggingChannel" \in DOMAIN config.slack.o
    /\ config.slack.o.loggingChannel # [t |-> "string", s |-> <<>>]

\* C22: the post "channel access needed" is made only after the notification has
\* failed with channel_not_found or not_in_channel, and only with a logging channel in
\* the configuration; there is at most one for a request, none after a delivery that
\* succeeded or failed in another way; when it fails itself it is not made again, and
\* sendSlackNotification ends with false as it does when it succeeds.
C22_AccessNoticeOnlyForChannelErrors ==
    \A r \in DOMAIN requests :
        /\ AccessCalls(r) \subseteq {2}
        /\ AccessCalls(r) # {} =>
               /\ NotificationCalls(r) = {1}
               /\ requests[r].calls[1].outcome \in {"channel_not_found", "not_in_channel"}
               /\ LoggingChannelSet
               /\ Len(requests[r].calls) = 2
               /\ requests[r].pc = "returned"
               /\ requests[r].notification =
                      IF requests[r].calls[2].outcome = "in flight" THEN "logging" ELSE "false"
        /\ (/\ NotificationCalls(r) # {}
            /\ requests[r].calls[1].outcome \in {"channel_not_found", "not_in_channel"}
            /\ LoggingChannelSet) => AccessCalls(r) = {2}

\* a notification failed with not_in_channel, the post to the logging channel failed by
\* a network error, and the delivery ended with false
C22_Witness ==
    \E r \in DOMAIN requests :
        /\ AccessCalls(r) = {2}
        /\ requests[r].calls[1].outcome = "not_in_channel"
        /\ requests[r].calls[2].outcome = "network error"
        /\ requests[r].calls[2].channel = <<"l", "o", "g", "s">>
        /\ requests[r].notification = "false"

----------------------------------------------------------------------------
(* What the claims say about the access token *)

\* the header without the prefix "Bearer "
WithoutBearer(h) ==
    IF Len(h) >= 7 /\ SubSeq(h, 1, 7) = <<"B", "e", "a", "r", "e", "r", " ">>
    THEN SubSeq(h, 8, Len(h)) ELSE h
\* the token of a request: that of the Authorization header when the header is there,
\* else the header x-access-token, else the parameter token of the query
TokenGiven(req) ==
    IF req.authorization.t = "string"
    THEN [t |-> "string", s |-> WithoutBearer(req.authorization.s)]
    ELSE IF req.xAccessToken.t # "undefined" THEN req.xAccessToken
    ELSE req.queryToken
\* validateAccessToken has returned
Validated == call.fn = "validateAccessToken" /\ call.returned
IsWebhookPost(r) ==
    /\ requests[r].pc # "pending"
    /\ requests[r].req.method = "POST"
    /\ requests[r].req.path = "/webhook"

\* C23: a POST /webhook whose token validateAccessToken does not find equal to the access
\* token of the configuration is answered with 401 as it arrives: its body is not read,
\* no details are extracted and no notification is dispatched.
C23_AuthBeforeBody ==
    \A r \in DOMAIN requests :
        (IsWebhookPost(r) /\ ~ValidateAccessToken(requests[r].req, config)) =>
            /\ requests[r].pc = "returned"
            /\ requests[r].status = 401
            /\ requests[r].handled = [threw |-> TRUE, e |-> "none"]
            /\ requests[r].calls = <<>>
            /\ requests[r].notification = "none"

\* a POST /webhook with a wrong token in the Authorization header was answered with
\* 401, and one with the right token had its body read
C23_Witness ==
    \E r1, r2 \in DOMAIN requests :
        /\ IsWebhookPost(r1) /\ IsWebhookPost(r2)
        /\ requests[r1].req.authorization = [t |-> "string",
                s |-> <<"B", "e", "a", "r", "e", "r", " ", "w", "r", "o", "n", "g">>]
        /\ requests[r1].status = 401
        /\ ValidateAccessToken(requests[r2].req, config)
        /\ requests[r2].handled # [threw |-> TRUE, e |-> "none"]

\* C24: validateAccessToken accepts exactly when the one token of the request, taken from
\* the Authorization header without its prefix "Bearer " when the header is there, else
\* from the header x-access-token, else from the parameter token of the query, is the
\* access token of the configuration.
C24_TokenByPrecedence ==
    Validated =>
        call.result = Return(Bool(/\ TokenGiven(call.arg).t \notin {"object", "array"}
                                  /\ TokenGiven(call.arg) = config.accessToken))

----------------------------------------------------------------------------
(* What the claims say about requests handled together *)

\* what the handler makes of a body alone, from the default record as it is written
\* in the source
OwnHandling(r) == HandleWebhookBody(requests[r].body, DefaultDetails)
\* the call that carries the notification, without its outcome
OwnNotification(r) ==
    LET own == OwnHandling(r).v
    IN NotificationRequest(own.event, own.details, own.details.slackTargets, config)

WithoutItem(r) ==
    LET body == requests[r].body
    IN \/ JsonParse(body).threw
       \/ JsonParse(body).v.t # "object"
       \/ "data" \notin DOMAIN JsonParse(body).v.o
\* the record a request handed on, when its handler reached the end
DetailsOf(r) == requests[r].handled.v.details

Handled(r) == BodyRead(r) /\ ~requests[r].handled.threw
\* a call of chat.postMessage of request r is in flight
InFlight(r) == requests[r].notification \in {"posting", "logging"}

\* C27: a webhook request that passed the token check and was handled to the end is
\* answered with 200 in the step that dispatches its notification: the answer is there
\* while the call is in flight, and it is the same after the delivery succeeded or
\* failed; while a call is in flight the other requests can be received and handled.
C27_AnswerBeforeDelivery ==
    \A r \in DOMAIN requests :
        /\ Handled(r) => requests[r].pc = "returned" /\ requests[r].status = 200
        /\ requests[r].notification # "none" =>
               Handled(r) /\ requests[r].pc = "returned" /\ requests[r].status = 200
        /\ (InFlight(r) /\ server = "running") =>
               \A o \in DOMAIN requests :
                   /\ requests[o].pc = "readRequestBody" =>
                          ENABLED (\E body \in RequestBodies : RequestBodyEnd(o, body))
                   /\ (requests[o].pc = "pending" /\ (o > 1 => requests[o - 1].pc # "pending")) =>
                          ENABLED (\E req \in Requests : ReceiveRequest(o, req))

\* the first request is answered with 200 while its notification is in flight, and the
\* second, which arrived after it, has been handled and its notification has failed
C27_Witness ==
    /\ requests[1].notification = "posting"
    /\ requests[1].calls[1].outcome = "in flight"
    /\ requests[1].status = 200
    /\ requests[2].notification = "false"
    /\ requests[2].calls # <<>>
    /\ requests[2].status = 200

----------------------------------------------------------------------------
(* What the claims say about sendSlackNotification *)

\* sendSlackNotification has resolved for request r, to true or to false
Resolved(r) == requests[r].notification \in {"true", "false"}

\* C28: sendSlackNotification resolves to true exactly when chat.postMessage answered
\* ok and to false otherwise: without a bot token, where no request is made at all,
\* after an error reply, a network error or a reply that is not JSON. It never throws:
\* the handler that called it has answered and is not rejected.
C28_ResolvesToDeliveryResult ==
    \A r \in DOMAIN requests :
        /\ requests[r].notification = "true" =>
               /\ NotificationCalls(r) = {1}
               /\ requests[r].calls[1].outcome = "ok"
        /\ requests[r].notification = "false" =>
               \/ requests[r].calls = <<>>
               \/ requests[r].calls[1].outcome \in FailedOutcomes
        /\ (Resolved(r) /\ requests[r].calls # <<>>) =>
               ((requests[r].notification = "true") <=> (requests[r].calls[1].outcome = "ok"))
        /\ (Notified(r) /\ ~BotToken) =>
               requests[r].calls = <<>> /\ requests[r].notification = "false"
        /\ (NotificationCalls(r) # {} /\ requests[r].calls[1].outcome # "in flight"
                /\ ~InFlight(r)) => Resolved(r)
        /\ Notified(r) => requests[r].pc = "returned"

\* one notification resolved to true after ok, another to false after an error reply
C28_Witness ==
    \E r1, r2 \in DOMAIN requests :
        /\ requests[r1].notification = "true" /\ requests[r1].calls[1].outcome = "ok"
        /\ requests[r2].notification = "false"
        /\ requests[r2].calls # <<>>
        /\ requests[r2].calls[1].outcome = "invalid_auth"

----------------------------------------------------------------------------
(* What the claims say about the two flags of the record *)

\* the event kind has one of the spellings of "comment" and one of "task"
BothSpellings ==
    /\ call.arg.json /\ HasItem /\ StringEvent
    /\ Contains(EventKind.s, <<"c", "o", "m", "m", "e", "n", "t">>)
           \/ Contains(EventKind.s, <<"C", "o", "m", "m", "e", "n", "t">>)
    /\ Contains(EventKind.s, <<"t", "a", "s", "k">>) \/ Contains(EventKind.s, <<"T", "a", "s", "k">>)

\* C29: no record that extractWebhookDetails returns has isComment and isTask both
\* true; for an event kind that contains "comment" and "task" the record is that of a
\* comment event, with none of the fields of a task; commentText is set only with
\* isComment true and taskName only with isTask true.
C29_CommentOrTask ==
    (ExtractReturned /\ ~call.result.threw) =>
        LET details == call.result.v
        IN /\ details.isComment \in {[t |-> "boolean", b |-> TRUE], [t |-> "boolean", b |-> FALSE]}
           /\ details.isTask \in {[t |-> "boolean", b |-> TRUE], [t |-> "boolean", b |-> FALSE]}
           /\ ~(details.isComment.b /\ details.isTask.b)
           /\ BothSpellings =>
                  /\ details.isComment.b
                  /\ ~details.isTask.b
                  /\ details.taskName = [t |-> "null"]
           /\ details.commentText # [t |-> "null"] => details.isComment.b
           /\ details.taskName # [t |-> "null"] => details.isTask.b
           /\ details.isComment.b => details.commentText # [t |-> "null"]
           /\ details.isTask.b => details.taskName # [t |-> "null"]

\* a record was returned for the event kind "taskComment" with an item that has a name
\* and a text: the text is taken, the name is not
C29_Witness ==
    /\ ExtractReturned /\ ~call.result.threw
    /\ BothSpellings
    /\ At(Payload, <<"data", "item", "name">>).t = "string"
    /\ call.result.v.commentText = [t |-> "string", s |-> <<"h", "i">>]
    /\ call.result.v.taskName = [t |-> "null"]
    /\ call.result.v.isComment.b

----------------------------------------------------------------------------
(* What the claims say about a request without a token *)

\* request r is a POST /webhook with no Authorization header, no header x-access-token
\* and no parameter token in its query
WithoutToken(r) ==
    /\ IsWebhookPost(r)
    /\ requests[r].req.authorization = [t |-> "undefined"]
    /\ requests[r].req.xAccessToken = [t |-> "undefined"]
    /\ requests[r].req.queryToken = [t |-> "undefined"]

\* C30: a POST /webhook without any token is not accepted, whatever the configuration,
\* one without an access token included: it is answered with 401 and its body is not
\* read.
C30_NoTokenNeverAccepted ==
    \A r \in DOMAIN requests :
        WithoutToken(r) =>
            /\ ~ValidateAccessToken(requests[r].req, config)
            /\ requests[r].pc = "returned"
            /\ requests[r].status = 401
            /\ requests[r].calls = <<>>

====
